---- MODULE MCLinkTable ----
EXTENDS LinkTable

CONSTANTS l1, l2
====
