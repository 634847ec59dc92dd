CONSTANTS
    NumKeys <- MCNumKeys
    NumPKs <- MCNumPKs
    MaxCount <- MCMaxCount
SPECIFICATION Spec
\* The index stays usable forever; a crash or an ended cursor may stop a run.
CHECK_DEADLOCK FALSE
PROPERTY RefinesIndexAbstract
