\* The logical plan of TestFilter_PushDown_Branch (filter_test.go).
CONSTANT Plans <- TestBranchPlan
SPECIFICATION Spec
INVARIANT PushDownPreservesResults
