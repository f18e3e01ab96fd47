\* The share-name codec of buildChild and its Dial over all short names.
CONSTANT Names <- MCNames
SPECIFICATION Spec
INVARIANT DialRecoversShareName
