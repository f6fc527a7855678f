------------------------- MODULE CertificateAuthority -------------------------
(***************************************************************************)
(* pki.NewCA and CA.NewCertificate, called by several goroutines that get  *)
(* their keys from the pool of KeyPool.                                    *)
(*                                                                         *)
(* A key is the number of the result it came with; FailedResults are those *)
(* with an error in place of a key.  A certificate says whose public key   *)
(* it holds, the name of its subject and its issuer, and which key signed  *)
(* it.                                                                     *)
(***************************************************************************)
EXTENDS KeyPool

CONSTANTS
  CACallers,     \* the callers that call NewCA; the others issue certificates
  FailedResults

ASSUME CAAssumption == CACallers \subseteq Callers /\ FailedResults \subseteq Nat

VARIABLES
  issuer,  \* the CA a caller issues its certificate with
  issued   \* what each call returned: NotYet, Failed or a key and a certificate

caVars == <<issuer, issued>>

NotYet == [key |-> 0, certificate |-> {}]
Failed == [key |-> 0, certificate |-> {"error"}]

CAInit ==
  /\ Init
  /\ issuer = [c \in Callers |-> c]
  /\ issued = [c \in Callers |-> NotYet]

\* The certificate for the public key of key, signed with signer.
Certificate(key, subject, by, signer) ==
  {[publicKey |-> key, subject |-> subject, issuer |-> by, signedWith |-> signer]}

Usable(c) == issued[c] \notin {NotYet, Failed}

\* NewCertificate is a method of a CA, so that there is one.
UseCA(c, ca) ==
  /\ at[c] = "start" /\ c \notin CACallers /\ issuer[c] = c
  /\ ca \in CACallers /\ Usable(ca)
  /\ issuer' = [issuer EXCEPT ![c] = ca]
  /\ UNCHANGED <<vars, issued>>

Called(c) == issued[c] = NotYet /\ (c \in CACallers \/ issuer[c] # c)

\* rand.Int fails to make a serial number.
NoSerial(c) ==
  /\ at[c] = "start" /\ Called(c)
  /\ issued' = [issued EXCEPT ![c] = Failed]
  /\ UNCHANGED <<vars, issuer>>

\* GenerateRsaKey, as KeyPool has it, once a caller has come so far.
GenerateRsaKey ==
  /\ \/ \E c \in Callers : Called(c) /\ Caller(c)
     \/ \E g \in CPUs : Generate(g)
  /\ UNCHANGED caVars

\* Mutant: the new certificate is signed with its own key.
SignWithOwnKey(c) ==
  /\ at[c] = "done" /\ issued[c] = NotYet
  /\ issued' = [issued EXCEPT ![c] =
       IF got[c] \in FailedResults THEN Failed
       ELSE [key |-> got[c], certificate |-> Certificate(got[c], c, issuer[c], got[c])]]
  /\ UNCHANGED <<vars, issuer>>

\* CreateCertificate signs with the key of the CA, which is the new one in
\* NewCA; an error of this or of GenerateRsaKey is all that is returned.
Sign(c) ==
  /\ at[c] = "done" /\ issued[c] = NotYet
  /\ LET signer == IF issuer[c] = c THEN got[c] ELSE issued[issuer[c]].key
     IN  \/ issued' = [issued EXCEPT ![c] = Failed]
         \/ /\ got[c] \notin FailedResults
            /\ issued' = [issued EXCEPT ![c] =
                 [key |-> got[c],
                  certificate |-> Certificate(got[c], c, issuer[c], signer)]]
  /\ UNCHANGED <<vars, issuer>>

Finished ==
  /\ \A c \in Callers :
       issued[c] # NotYet \/ (c \notin CACallers /\ ~\E ca \in CACallers : Usable(ca))
  /\ UNCHANGED <<vars, caVars>>

CANext ==
  \/ \E c \in Callers : NoSerial(c) \/ Sign(c) \/ \E ca \in Callers : UseCA(c, ca)
  \/ GenerateRsaKey
  \/ Finished

CASpec == CAInit /\ [][CANext]_<<vars, caVars>>

\* Go runs what can run, and a channel serves its receivers in turn.
CAFairness ==
  /\ \A c \in Callers :
       /\ WF_<<vars, caVars>>(Called(c) /\ Caller(c) /\ UNCHANGED caVars)
       /\ WF_<<vars, caVars>>(Sign(c))
  /\ \A g \in CPUs : WF_<<vars, caVars>>(Generate(g) /\ UNCHANGED caVars)

-----------------------------------------------------------------------------
(* Properties.                                                             *)

\* Every certificate that was returned is for the key it comes with, and
\* verifies against the certificate of the CA that issued it.
Verifies ==
  \A c \in Callers : Usable(c) =>
    \A cert \in issued[c].certificate, root \in issued[issuer[c]].certificate :
      /\ cert.publicKey = issued[c].key
      /\ cert.issuer = root.subject
      /\ cert.signedWith = root.publicKey

\* Every call of NewCA and NewCertificate returns: it gets a key though others
\* race with it for the setup of the pool and for the keys.
CallsReturn == \A c \in Callers : Called(c) ~> issued[c] # NotYet

\* No two certificates have the same key, and none has a key that is missing.
OwnKeys ==
  \A c, d \in Callers : Usable(c) =>
    /\ issued[c].key \notin FailedResults
    /\ Usable(d) /\ c # d => issued[c].key # issued[d].key

=============================================================================
