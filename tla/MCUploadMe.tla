---------------------------- MODULE MCUploadMe ----------------------------
EXTENDS UploadMe

\* The same file twice, and another one.
MCParts == [u \in Uploads |-> IF u = 3 THEN 1 ELSE 2]
MCName  == [u \in Uploads |-> IF u = 3 THEN "b" ELSE "a"]
=============================================================================
