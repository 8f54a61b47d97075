CONSTANTS
  Files <- TheFiles
  Configs <- TheConfigs
  Markdown <- TheMarkdown
  DoczNames = {"0001-a.md"}
  Frontmatter <- TheFrontmatter
  Unsafe = {"..", "."}
  None = None
  MaxPush = 3
  Spellings = {TRUE}
SPECIFICATION Spec
INVARIANTS TypeOK PublishedPathsAreKeys PublishedIsCurrent
CHECK_DEADLOCK FALSE
