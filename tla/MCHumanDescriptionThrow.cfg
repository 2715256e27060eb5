\* A ValueType member without a parseParam case: a throwing call leaves lastIndex behind for the next.
CONSTANTS
    s1 = s1
    s2 = s2
    s3 = s3
    s4 = s4
    v1 = v1
    v2 = v2
    Undefined = Undefined
    ParamLists <- MCParamLists
    WordType <- MCWordType
    Descriptions <- MCDescriptions
    ParamTypes <- MCParamTypes
    ValueTypes <- MCValueTypesUnhandled
SPECIFICATION Spec
INVARIANT ProcessDescribesTemplate
