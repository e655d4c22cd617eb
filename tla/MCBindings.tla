----------------------------- MODULE MCBindings -----------------------------
(* Two native threads, two addresses, one signer; a payload of no bytes, one *)
(* that is text and one that is not.                                       *)
EXTENDS Bindings, TLC

MCDraft == { << <<"credentialSubject", "alice">> >> }

MCPlaintext ==
    { [len |-> 0, utf8 |-> TRUE], [len |-> 1, utf8 |-> TRUE],
      [len |-> 1, utf8 |-> FALSE] }

ThreadSymmetry == Permutations(Thread) \cup Permutations(Address)

=============================================================================
