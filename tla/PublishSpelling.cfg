CONSTANTS
  Files <- TheFiles
  Configs <- TheConfigs
  Markdown <- TheMarkdown
  DoczNames = {"0001-a.md"}
  Frontmatter <- TheFrontmatter
  Unsafe = {"..", "."}
  None = None
  MaxPush = 2
  Spellings = {FALSE}
SPECIFICATION Spec
INVARIANT DocsDirPagesCovered
CHECK_DEADLOCK FALSE
