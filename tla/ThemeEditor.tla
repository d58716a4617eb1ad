----------------------------- MODULE ThemeEditor -----------------------------
(***************************************************************************)
(* Terminal themes: the registry every tab draws from, the files of the    *)
(* user's own themes, and the page of the settings that edits them.        *)
(*                                                                         *)
(* A theme's id is the word made of its name and a number, 0 for none. Of  *)
(* its look only what the page tells apart is kept: the colours, and the   *)
(* footer's, which a theme may leave unset and the page cannot. Parents    *)
(* are left out: every colour of a child but an unset one is its own.      *)
(***************************************************************************)
EXTENDS Naturals, Functions

CONSTANTS
  BuiltinWords, \* words of the built-in themes; the default is one
  DefaultWord,
  CustomWord,   \* [BuiltinWords -> words]: of the name "... (custom)"
  GivenWords,   \* words of the names a user types, or an imported file has
  Searches,     \* sets of words that a search leaves in the list
  Colours,
  MaxThemeWrites, \* files written, in all
  ThemeTabs     \* tabs that are open

VARIABLES
  themes,  \* the registry: id -> built-in or not, look
  themeFiles, \* the user's files: id -> look, or Cut
  open,    \* whether the page is open
  themeId, \* its theme
  shown,   \* the look its widgets have
  edited,  \* whether the user changed one since they were loaded
  search,  \* words that the search leaves
  worn,    \* for each tab, the id and the look applied last
  themeWrites

page == <<open, themeId, shown, edited, search>>
themeVars == <<themes, themeFiles, page, worn, themeWrites>>

(* Every theme shipped has a name, and a custom one it may become.         *)
ASSUME ThemeAssumption ==
  /\ DefaultWord \in BuiltinWords /\ "" \notin BuiltinWords
  /\ CustomWord \in [BuiltinWords -> Range(CustomWord)]
  /\ MaxThemeWrites \in Nat

Words == BuiltinWords \union GivenWords \union Range(CustomWord) \union {""}
NoId == <<"", 0>>
Default == <<DefaultWord, 0>>
Builtins == BuiltinWords \X {0}
Cut == [colour |-> "none", footer |-> "none"]

Shipped(id) == [builtin |-> TRUE, look |-> [colour |-> id[1], footer |-> "unset"]]

(* A file that cannot be read, or has no id, is passed over.               *)
Loaded(fs) ==
  [id \in Builtins \union {i \in DOMAIN fs : fs[i] # Cut /\ i # NoId} |->
     IF id \in DOMAIN fs THEN [builtin |-> FALSE, look |-> fs[id]] ELSE Shipped(id)]

IsBuiltin(id) == id \in DOMAIN themes /\ themes[id].builtin

With(f, id, x) == [i \in DOMAIN f \union {id} |-> IF i = id THEN x ELSE f[i]]
Without(f, id) == Restrict(f, DOMAIN f \ {id})

UniqueId(word) ==
  <<word, CHOOSE n \in 0 .. MaxThemeWrites + 1 :
            /\ <<word, n>> \notin DOMAIN themes
            /\ \A k \in 0 .. n - 1 : <<word, k>> \in DOMAIN themes>>

Applied(reg, id) == [id |-> id, look |-> reg[id].look]

ThemeInit ==
  /\ themeFiles = << >> /\ themeWrites = 0
  /\ themes = Loaded(themeFiles)
  /\ open = FALSE /\ themeId = Default /\ edited = FALSE
  /\ shown = themes[Default].look
  /\ search = Words
  /\ worn = [t \in ThemeTabs |-> Applied(themes, Default)]

(***************************************************************************)
(* The page's widgets. Loading a look sets a footer that was not.          *)
(***************************************************************************)
loadThemeToUI(look) ==
  /\ shown' = [look EXCEPT !.footer = IF @ = "unset" THEN "white" ELSE @]
  /\ edited' = FALSE

collectThemeFromUI == shown

onThemeDropdownChanged(reg, id) ==
  /\ themeId' = id
  /\ loadThemeToUI(reg[id].look)

Listed(reg, words) == {id \in DOMAIN reg : id[1] \in words}

(* The theme asked for, else the default, else the first of the list, here *)
(* any. With nothing in the list the widgets are left as they are.         *)
populateThemeDropdown(reg, id, words) ==
  LET list == Listed(reg, words) IN
  IF list = {} THEN themeId' = id /\ UNCHANGED <<shown, edited>>
  ELSE \E first \in list :
         /\ id \in list => first = id
         /\ id \notin list /\ Default \in list => first = Default
         /\ onThemeDropdownChanged(reg, first)

showTheme(reg, id) ==
  /\ search' = Words
  /\ populateThemeDropdown(reg, id, Words)

(***************************************************************************)
(* The manager. A file is opened, which empties it, and then written; both *)
(* may fail, and only a file that was written is registered.               *)
(***************************************************************************)
registerTheme(id, look) == themes' = With(themes, id, [builtin |-> FALSE, look |-> look])

Saved(id, look) == themeFiles' = With(themeFiles, id, look) /\ registerTheme(id, look)

Write == themeWrites < MaxThemeWrites /\ themeWrites' = themeWrites + 1

NotSaved(id) == UNCHANGED themeFiles \/ themeFiles' = With(themeFiles, id, Cut)

saveUserTheme(id, look) ==
  \/ Saved(id, look)
  \/ NotSaved(id) /\ UNCHANGED themes

duplicateTheme(id, word) == IF id \in DOMAIN themes THEN UniqueId(word) ELSE NoId

(* A mutant: an edited built-in is registered like a theme of the user.    *)
applyEditedThemeOver ==
  /\ registerTheme(themeId, collectThemeFromUI)
  /\ worn' = [t \in ThemeTabs |-> Applied(themes', themeId)]
  /\ UNCHANGED <<themeFiles, themeId, shown, edited, search>>

(* What Save does when the page is the one on screen. The name in the list *)
(* is empty when the list is.                                              *)
applyEditedTheme ==
  LET word == IF Listed(themes, search) = {} THEN CustomWord[DefaultWord] ELSE CustomWord[themeId[1]]
      id   == UniqueId(word) IN
  IF IsBuiltin(themeId) /\ edited
  THEN /\ registerTheme(id, collectThemeFromUI)
       /\ themeFiles' = With(themeFiles, id, collectThemeFromUI) \/ NotSaved(id)
       /\ showTheme(themes', id)
       /\ worn' = [t \in ThemeTabs |-> Applied(themes', id)]
  ELSE /\ IF IsBuiltin(themeId) THEN UNCHANGED themes ELSE registerTheme(themeId, collectThemeFromUI)
       /\ worn' = [t \in ThemeTabs |-> Applied(themes', themeId)]
       /\ UNCHANGED <<themeFiles, themeId, shown, edited, search>>

-----------------------------------------------------------------------------
(***************************************************************************)
(* The user. The page starts with the theme of the tab shown, when there   *)
(* is one and the theme still exists.                                      *)
(***************************************************************************)
onOpenSettings ==
  /\ ~open /\ open' = TRUE
  /\ search' = Words
  /\ \E id \in {Default} \union {worn[t].id : t \in ThemeTabs} :
       onThemeDropdownChanged(themes, IF id \in DOMAIN themes THEN id ELSE Default)
  /\ UNCHANGED <<themes, themeFiles, worn, themeWrites>>

onCloseClicked ==
  /\ open /\ open' = FALSE
  /\ UNCHANGED <<themes, themeFiles, themeId, shown, edited, search, worn, themeWrites>>

onSelectTheme ==
  /\ open
  /\ \E id \in Listed(themes, search) \ {themeId} : onThemeDropdownChanged(themes, id)
  /\ UNCHANGED <<themes, themeFiles, open, search, worn, themeWrites>>

onThemePropertyChanged ==
  /\ open
  /\ edited' = TRUE
  /\ \E c \in Colours : shown' = [shown EXCEPT !.colour = c]
  /\ UNCHANGED <<themes, themeFiles, open, themeId, search, worn, themeWrites>>

onThemeFilterChanged ==
  /\ open
  /\ search' \in Searches \union {Words}
  /\ populateThemeDropdown(themes, themeId, search')
  /\ UNCHANGED <<themes, themeFiles, open, worn, themeWrites>>

(* The look of the widgets under a new name. A failure goes unnoticed.     *)
onNewTheme ==
  /\ open /\ Write
  /\ \E word \in GivenWords :
       LET id == duplicateTheme(themeId, word) IN
       /\ saveUserTheme(id, collectThemeFromUI)
       /\ populateThemeDropdown(themes', id, search)
  /\ UNCHANGED <<open, search, worn>>

(* The stored look, whatever the widgets have.                             *)
onDuplicateTheme ==
  /\ open /\ Write
  /\ themeId \in DOMAIN themes
  /\ \E word \in GivenWords :
       LET id == duplicateTheme(themeId, word) IN
       /\ saveUserTheme(id, themes[themeId].look)
       /\ populateThemeDropdown(themes', id, search)
  /\ UNCHANGED <<open, search, worn>>

onSaveTheme ==
  /\ open /\ Write
  /\ ~IsBuiltin(themeId)
  /\ saveUserTheme(themeId, collectThemeFromUI)
  /\ edited' = FALSE
  /\ UNCHANGED <<open, themeId, shown, search, worn>>

onResetTheme ==
  /\ open
  /\ themeId \in DOMAIN themes
  /\ loadThemeToUI(themes[themeId].look)
  /\ UNCHANGED <<themes, themeFiles, open, themeId, search, worn, themeWrites>>

onDeleteTheme ==
  /\ open
  /\ ~IsBuiltin(themeId)
  /\ themes' = Without(themes, themeId)
  /\ themeFiles' = IF themeId \in DOMAIN themes THEN Without(themeFiles, themeId) ELSE themeFiles
  /\ populateThemeDropdown(themes', Default, search)
  /\ UNCHANGED <<open, search, worn, themeWrites>>

(* A theme of somebody else's, under an id that is free.                   *)
onImportTheme ==
  /\ open /\ Write
  /\ \E word \in GivenWords, c \in Colours :
       LET id   == UniqueId(word)
           look == [colour |-> c, footer |-> "unset"] IN
       \/ Saved(id, look) /\ populateThemeDropdown(themes', themeId, search)
       \/ NotSaved(id) /\ UNCHANGED <<themes, themeId, shown, edited>>
  /\ UNCHANGED <<open, search, worn>>

onSaveClicked ==
  /\ open
  /\ IF IsBuiltin(themeId) /\ edited THEN Write ELSE UNCHANGED themeWrites
  /\ applyEditedTheme
  /\ UNCHANGED <<open>>

onQuickThemeChosen ==
  /\ ~open
  /\ \E t \in ThemeTabs, id \in DOMAIN themes : worn' = [worn EXCEPT ![t] = Applied(themes, id)]
  /\ UNCHANGED <<themes, themeFiles, page, themeWrites>>

(* The program ends and starts again; its tabs wear the default.           *)
Restart ==
  /\ open' = FALSE
  /\ themes' = Loaded(themeFiles)
  /\ worn' = [t \in ThemeTabs |-> Applied(themes', Default)]
  /\ UNCHANGED <<themeFiles, themeId, shown, edited, search, themeWrites>>

ThemeNext ==
  \/ onOpenSettings \/ onCloseClicked \/ onSelectTheme \/ onThemePropertyChanged
  \/ onThemeFilterChanged \/ onNewTheme \/ onDuplicateTheme \/ onSaveTheme
  \/ onResetTheme \/ onDeleteTheme \/ onImportTheme \/ onSaveClicked
  \/ onQuickThemeChosen \/ Restart

ThemeSpec == ThemeInit /\ [][ThemeNext]_themeVars

-----------------------------------------------------------------------------
\* Whatever is edited, applied, imported, saved and deleted, built-in themes
\* stay as they were shipped (terminal_theme_manager.h:36, "A built-in is never
\* replaced").
BuiltinsAsShipped == \A id \in Builtins : id \in DOMAIN themes /\ themes[id] = Shipped(id)

\* And the page goes on with the theme it applied, "so a further Apply updates
\* that theme" (onOpenSettings.cpp:31), with no edits of a built-in left to
\* derive another theme from.
ThemesKept ==
  [][ /\ BuiltinsAsShipped'
      /\ open /\ open' /\ worn' # worn =>
           /\ \A t \in ThemeTabs : worn'[t].id = themeId'
           /\ edited' => ~themes'[themeId'].builtin ]_themeVars

=============================================================================
