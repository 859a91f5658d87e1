CONSTANTS
  q1 = q1 q2 = q2
  Child <- ThreeChildren
  Prober <- TwoProbers
  NoChild = NoChild Nobody = Nobody Owner = Owner
  WaitCanFail = TRUE
SPECIFICATION FairSpec
INVARIANTS Owned NotMistaken
PROPERTIES UnloadIsFinal CallsReturn
