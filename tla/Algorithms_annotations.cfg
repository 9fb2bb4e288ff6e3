SPECIFICATION Spec
CONSTANTS
  Char <- MCChar
  Units <- MCUnits
  Extending = {"acute"}
  WordChar <- MCWordChar
  Lower <- MCLower
  Compat <- MCCompat
  Composed <- MCComposed
  MaxLimit = 2
  MaxRanges = 2
  NoSelection = NoSelection
  Frame <- MCFrame
  FrameLimit = 1
  NoPiece = NoPiece
  ValidJson <- MCValidJson
  NoFont = NoFont
  CanEmbed <- MCCanEmbed
  SourcePage <- MCSourcePage
  Replacement <- MCReplacement
  EditLimit = 2
  Space = Space
  ChunkSizes = {1, 2, 3, 4}
  MaxWord = 4
  MaxWords = 1
  Document <- MCDocument
  NoFile = NoFile
  NoFace = NoFace
  NoApproval = NoApproval
  SourceBlock <- MCSourceBlock
  ObjectCommand <- MCObjectCommand
  Dash = Dash
  Absent = Absent
  Attribute = {"size", "rotate"}
  Imports <- MCImports
  ImportLimit = 2
  RunLimit = 2
  Caller = {c1, c2}
  Patch = {p1, p2}
  Dpi = {60, 100, 200}
  Bucket = {72, 144}
  SizeOf <- MCSizeOf
  Budget = 4
  Nothing = Nothing
  MaxDecoded = 10
  ToolCall = {t1, t2}
  Content = {x1, x2}
  ProposalLimit = 3
  RevisionLimit = 4
  MaxCommands = 2
  MaxText = 3
  MaxSelected = 3
  MaxOperators = 2
INVARIANT
  UnrelatedAnnotationsSurvive
CHECK_DEADLOCK FALSE
