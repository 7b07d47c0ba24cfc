SPECIFICATION Spec
CONSTANTS
  Browsers = {b1, b2}
  MaxId = 2
  MaxLost = 1
SYMMETRY BrowserSymmetry
INVARIANTS TypeOK PostsHaveBlogs AnswersAreTrue NeverRethrown
PROPERTIES DeletedForGood
