-------------------------- MODULE MCCommunication --------------------------
EXTENDS Communication_proofs

MCRightKey == <<5, 6>>

\* Two sizes of COM_SET_FRAM, whose values look like COM_INIT, the other
\* commands, and one that does not exist.
MCCommands == {
  <<32, 3, 1, 2, 3>>, <<32, 5, 0, 2, 0, 2, 0>>, <<19, 0>>, <<3, 0>>, <<9, 1, 2>>,
  <<33, 2, 5, 6>>, <<33, 2, 5, 7>>, <<16, 0>>, <<17, 0>>, <<18, 0>>, <<52, 0>>}
=============================================================================
