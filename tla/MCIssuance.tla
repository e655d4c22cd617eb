----------------------------- MODULE MCIssuance -----------------------------
(* Two keys, two drafts, and the members people change or add.              *)
EXTENDS Issuance

CONSTANTS k1, k2

MCKey == {k1, k2}

MCDraft ==
    { << <<"credentialSubject", "alice">> >>,
      << <<"expirationDate", 0>>, <<"credentialSubject", "alice">> >> }

MCEdited ==
    { <<"expirationDate", 1>>, <<"credentialSubject", "bob">>,
      <<"issuer", KeyDid(k2)>>,
      <<"verifiableCredential",
        <<"array", << << <<"credentialSubject", "bob">> >> >> >> >> }

=============================================================================
