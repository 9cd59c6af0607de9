-------------------------- MODULE MCMeshDirectory --------------------------
(* Two services that differ in case only, two of which the name of one is the *)
(* qualified name of the other, and names that reach them directly or through *)
(* the namespace of the sidecar, "prod".                                      *)
EXTENDS MeshDirectory, TLC

MCServices == {"pay.prod", "Pay.prod", "cart.prod", "cart.prod.prod"}
MCHosts == {"pay.", "pay.prod.", "cart.prod.", "pay.prod.prod.", "cart.prod.prod.", "old."}
MCHostOf == "pay.prod" :> "pay.prod." @@ "Pay.prod" :> "pay.prod." @@ "cart.prod" :> "cart.prod."
            @@ "cart.prod.prod" :> "cart.prod.prod."
MCNames == {"pay", "PAY.prod", "cart.prod", "old"}
MCMatched == MCNames \ {"old"}
MCPlain == "pay" :> "pay." @@ "PAY.prod" :> "pay.prod." @@ "cart.prod" :> "cart.prod."
           @@ "old" :> "old."
MCQualified == "pay" :> "pay.prod." @@ "PAY.prod" :> "pay.prod.prod."
               @@ "cart.prod" :> "cart.prod.prod." @@ "old" :> "pay.prod."
=============================================================================
