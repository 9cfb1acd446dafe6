CONSTANTS
  ButtonCount = 2
SPECIFICATION Spec
INVARIANT BootInv
INVARIANT BannerTells
INVARIANT SlcrLocked
INVARIANT LeftoversKnown
INVARIANT FailuresShown
