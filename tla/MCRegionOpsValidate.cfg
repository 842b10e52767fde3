CONSTANTS
    AddrBits = 5
    PageSize = 4
    None = None
    Sizes <- SizesNoWrap
SPECIFICATION Spec
INVARIANTS
    ValidateRegionSound
