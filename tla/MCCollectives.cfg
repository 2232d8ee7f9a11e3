SPECIFICATION CollectiveSpec
CONSTANTS
    Members <- MCSubgroup
INVARIANTS
    SubgroupResult
CHECK_DEADLOCK FALSE
