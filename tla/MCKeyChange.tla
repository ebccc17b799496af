---------------------------- MODULE MCKeyChange ----------------------------
EXTENDS KeyChange_proofs, TLC
KeySymmetry == Permutations(Keys)
=============================================================================
