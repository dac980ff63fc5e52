---------------------------- MODULE MCCredential ----------------------------
(* A request with a body that can be read once, one with a GetBody, and    *)
(* cookies, headers and parameters for the credentials to replace.         *)
EXTENDS Credential, TLC

MCCanon == "Authorization" :> "Authorization" @@ "authorization" :> "Authorization" @@ "Content-Type" :> "Content-Type"

M(in, name, value) == [in |-> in, name |-> name, value |-> value]
Old == <<M("header", "authorization", "old"), M("cookie", "sid", "old"), M("cookie", "token", "kept"),
         M("cookie", "sid", "older"), M("query", "token", "old")>>

MCPlans == {[method |-> "PUT", body |-> <<"x", "y">>, getBody |-> g, mutators |-> Old] : g \in BOOLEAN}

At(in, name, prefix) == [in |-> in, name |-> name, prefix |-> prefix]
MCLocations == {At(None, "authorization", None), At("cookie", "sid", "Key"),
                At("query", None, None), At("body", None, None), At("fragment", "sid", None)}
=============================================================================
