----------------------------- MODULE MCAccounts -----------------------------
(* One mailbox, spelled in two ways: Google reports it in lower case; GitHub   *)
(* keeps it from the profile and lists it as its owner wrote it.               *)
EXTENDS Accounts, TLC

CONSTANTS i1, i2

Written == [box |-> "anna", lower |-> FALSE]
MCEmpty == [box |-> "", lower |-> TRUE]
MCAddresses == Address({"anna"}) \cup {MCEmpty}
Google == [provider |-> "google", email |-> ToLower(Written), list |-> <<>>]
GitHub == [provider |-> "github", email |-> MCEmpty,
           list |-> <<[email |-> ToLower(Written), primary |-> TRUE, verified |-> FALSE],
                      [email |-> Written, primary |-> TRUE, verified |-> TRUE]>>]
MCProfile == (i1 :> Google) @@ (i2 :> GitHub)
MCAdminEmail == ToLower(Written)
=============================================================================
