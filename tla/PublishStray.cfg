CONSTANTS
  Files <- TheFiles
  Configs <- TheConfigs
  Markdown <- TheMarkdown
  DoczNames = {"0001-a.md"}
  Frontmatter <- TheFrontmatter
  Unsafe = {"..", "."}
  None = None
  MaxPush = 1
  Spellings = {TRUE}
SPECIFICATION Spec
INVARIANT StraysAreSkipped
CHECK_DEADLOCK FALSE
