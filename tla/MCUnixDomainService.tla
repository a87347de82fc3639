------------------------- MODULE MCUnixDomainService -------------------------
(* Two clients with addresses of one length, and one that did not bind.    *)
EXTENDS UnixDomainService, TLC

CONSTANTS first, second, third

Unbound == first :> <<1, 2>> @@ second :> <<3, 4>> @@ third :> <<>>

=============================================================================
