--------------------------- MODULE MCTemplateSync ---------------------------
(***************************************************************************)
(* Instance of TemplateSync for TLC: three templates that share components.*)
(***************************************************************************)
EXTENDS TemplateSync, TLC

CONSTANTS tank, plane, zone, uid, pos

MCParts == (tank :> <<uid, pos>>) @@ (plane :> <<pos, uid>>) @@ (zone :> <<pos>>)
=============================================================================
