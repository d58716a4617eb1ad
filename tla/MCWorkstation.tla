---------------------------- MODULE MCWorkstation ----------------------------
(* One-row and two-row screens, an input field of one position; a paste that  *)
(* fills it twice, one that starts in the next field.                         *)
EXTENDS McpInput

MCModes == {{}, {"readOnly"}, {"history"}}
MCPastes == { <<"char", "char", "char">>, <<"break", "char">>, <<"char", "char", "char", "char">> }
=============================================================================
