\* Both ways a message takes; chunks end anywhere, inside characters too.
SPECIFICATION Spec
CONSTANTS
  Docs <- MCDocs
  ChunkCounts = {1, 2, 4, 9}
  Sources = {"imap", "proton"}
INVARIANT TypeOK
INVARIANT ViewsKeepText
INVARIANT SourcesAgree
PROPERTY StreamIsProgressive
