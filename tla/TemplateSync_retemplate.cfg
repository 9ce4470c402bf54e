CONSTANTS
  tank = tank
  plane = plane
  zone = zone
  uid = uid
  pos = pos
  Template = {tank, plane, zone}
  Component = {uid, pos}
  Parts <- MCParts
  Entity = {e1, e2}
  NoTemplate = NoTemplate
  Retemplates = TRUE
  MaxBlocks = 4
SPECIFICATION Spec
CHECK_DEADLOCK FALSE
INVARIANT
  TemplateIdsMonotonic
