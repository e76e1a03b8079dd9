---------------------------- MODULE MCCredentials ----------------------------
(* FilesystemCredentials for TLC: a key and a certificate that are rolled  *)
(* over to another generation, or written in a form not expected.          *)
EXTENDS FilesystemCredentials

Of(g, f) == [gen |-> g, form |-> f]

MCOrders == {<<"key", "cert">>, <<"cert", "crl">>}
MCFirst == {Of(1, "PEM")}
MCLater == {Of(2, "PEM"), Of(2, "DER")}
=============================================================================
