------------------------ MODULE MCAdapterConnection ------------------------
(* The endpoint asks for one reconnect at most, or for none in particular (a  *)
(* .cfg cannot write a negative number).                                      *)
EXTENDS AdapterConnection

NoneOrOne == {Unlimited, 1}
=============================================================================
