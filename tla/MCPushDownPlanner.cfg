\* Every logical plan of up to five procedures: shared sources, two
\* filters on one branch (PushDown's dup path), filters below a limit,
\* group and max, and duplications of the source by range and filter.
CONSTANT Plans <- AllPlans
SPECIFICATION Spec
INVARIANT TypeOK
