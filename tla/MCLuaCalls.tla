------------------------------ MODULE MCLuaCalls ------------------------------
EXTENDS LuaCalls, TLC

CONSTANTS Co1, Co2

Symmetry == Permutations({Co1, Co2})
================================================================================
