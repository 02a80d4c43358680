SPECIFICATION SafetySpec
CONSTANTS
    Window = 2
    MaxTime = 5
PROPERTIES
    PromotionIsEarned
