\* Three templates processed in any order; every ValueType has a parseParam case.
CONSTANTS
    s1 = s1
    s2 = s2
    s3 = s3
    s4 = s4
    v1 = v1
    v2 = v2
    Undefined = Undefined
    ParamLists <- MCParamLists
    WordType <- MCWordType
    Descriptions <- MCDescriptions
    ParamTypes <- MCParamTypes
    ValueTypes <- MCParamTypes
SPECIFICATION Spec
INVARIANT ProcessDescribesTemplate
