SPECIFICATION Spec
CONSTANTS
    None = None
    LowerCase <- MCLowerCase
    Words <- MCWords
    Numbers <- MCNumbers
    Inputs <- MCInputs
    GarbageLengths = {0, 1}
    NotSymbolic = {"9th"}
    Keywords = {"class"}
INVARIANTS
    IncludesAreTextual
    VerdictIgnoresOrder
    ErrorsBeforeOutput
    ConstantsHaveValues
    ClassNamesDistinct
    NamesKeptIfPossible
    TagNamesDistinct
    TagsDefinedBeforeUse
    TagsFound
    TraitsMeasureMessages
