---------------------------- MODULE MCLocalStore ----------------------------
EXTENDS LocalStore
CONSTANTS p1, p2, k1, k2
====
