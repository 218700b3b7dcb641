---------------------------- MODULE MCCheckpoint ----------------------------
(* Values of the constant Limits that a configuration file cannot write.    *)
EXTENDS Checkpoint

NoLimit == {<<>>}
LimitOne == {<<1>>}
LimitsThreeOne == {<<3>>, <<1>>}
=============================================================================
