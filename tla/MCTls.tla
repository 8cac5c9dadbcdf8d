------------------------------- MODULE MCTls -------------------------------
(* Tls with the lists of addresses that a host name may have. *)
EXTENDS Tls

CONSTANTS a1, a2

HostLists == {<<a1>>, <<a1, a2>>}

=============================================================================
