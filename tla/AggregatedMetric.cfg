\* Two readers collecting at their own pace from a buffer of two samples.
SPECIFICATION Spec
CONSTANTS
  Readers = {0, 1}
  BufferSize = 2
  Values = {1, 3}
  MaxLost = 2
INVARIANT EverySampleAccounted
PROPERTY ImplementsSampleWindow
