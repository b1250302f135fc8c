SPECIFICATION Spec
CONSTANTS
    Dishes <- ThreeDishes
    Calories <- PowersOfTwo
    Lipides <- PowersOfThree
    Filters <- OneHidden
PROPERTY FilterKeepsSelection
