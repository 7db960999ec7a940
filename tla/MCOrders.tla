------------------------------ MODULE MCOrders ------------------------------
EXTENDS Orders
MCFirst == [f \in Folder |-> IF f = "a" THEN {<<1, "file">>, <<2, "file">>} ELSE {}]
=============================================================================
