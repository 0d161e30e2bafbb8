---------------------------- MODULE MCLeaderboard ----------------------------
EXTENDS Leaderboard, TLC

CONSTANTS a, b, c, d, e

UserSymmetry == Permutations(Users)
=============================================================================
