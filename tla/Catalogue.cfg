SPECIFICATION Spec
CONSTANTS
  Categories = {c1, c2}
  Names <- MCNames
  SlugOf <- MCSlugOf
  Emails = {e1}
  Handlers = {h1, h2}
  Actives = {FALSE}
  Null = Null
  None = None
  plumbing = plumbing
  Plumbing = Plumbing
  tiling = tiling
SYMMETRY Symmetry
PROPERTY HandlersAreAtomic
