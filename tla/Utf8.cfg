SPECIFICATION TextSpec
CONSTANTS
  Sources <- AllSources
  Literals <- DashDash
  ASCII <- Characters
  TabStop = 4
INVARIANTS InBounds
PROPERTIES IsCursor
