----------------------- MODULE CertificateAuthorityProofs -----------------------
(***************************************************************************)
(* Safety of KeyPool, and what the certificates of CertificateAuthority    *)
(* say, for any number of callers and CPUs and any failures.               *)
(***************************************************************************)
EXTENDS CertificateAuthority, TLAPS

-----------------------------------------------------------------------------
(* The pool of keys: the inductive invariant.                              *)

InSetup(c) == at[c] \in {"make", "spawn"}

\* One caller sets up the pool, and until it has, nobody gets further.
OnceInv ==
  /\ \A c, d \in Callers : InSetup(c) /\ InSetup(d) => c = d
  /\ \A c \in Callers :
       /\ InSetup(c) => once = "running"
       /\ at[c] = "make" => rsaKeys = 0
       /\ at[c] = "spawn" => rsaKeys = 1
       /\ at[c] \in {"receive", "done"} => once = "done" /\ on[c] = 1
  /\ rsaKeys \in {0, 1}
  /\ once = "new" => rsaKeys = 0
  /\ once = "done" => rsaKeys = 1

\* A result is offered by its generator or in the hands of one caller: no two
\* have the same.
ResultsInv ==
  /\ \A g \in CPUs : offered[g] <= results
  /\ \A c \in Callers : got[c] <= results /\ (at[c] = "done" <=> got[c] # 0)
  /\ \A g, h \in CPUs : g # h /\ offered[g] # 0 => offered[g] # offered[h]
  /\ \A c, d \in Callers : c # d /\ got[c] # 0 => got[c] # got[d]
  /\ \A g \in CPUs, c \in Callers : offered[g] # 0 => offered[g] # got[c]

IInv == TypeOK /\ OnceInv /\ ResultsInv

-----------------------------------------------------------------------------
(* Each step preserves it.                                                 *)

LEMMA InitIInv == Init => IInv
BY NumCPUAssumption DEF Init, IInv, TypeOK, OnceInv, ResultsInv, InSetup, CPUs

LEMMA DoKeeps == ASSUME IInv, NEW c \in Callers, Do(c) PROVE IInv'
<1> USE DEF Do, Receive, IInv
<1>1. TypeOK'
  BY DEF TypeOK
<1>2. OnceInv'
  BY DEF TypeOK, OnceInv, InSetup
<1>3. ResultsInv'
  BY DEF TypeOK, ResultsInv
<1> QED
  BY <1>1, <1>2, <1>3

LEMMA MakeChannelKeeps == ASSUME IInv, NEW c \in Callers, MakeChannel(c) PROVE IInv'
<1> USE DEF MakeChannel, IInv
<1>1. TypeOK'
  BY DEF TypeOK
<1>2. OnceInv'
  BY DEF TypeOK, OnceInv, InSetup
<1>3. ResultsInv'
  BY DEF TypeOK, ResultsInv
<1> QED
  BY <1>1, <1>2, <1>3

LEMMA SpawnKeeps == ASSUME IInv, NEW c \in Callers, Spawn(c) PROVE IInv'
<1> USE DEF Spawn, Receive, IInv
<1>1. TypeOK'
  BY NumCPUAssumption DEF TypeOK
<1>2. OnceInv'
  BY DEF TypeOK, OnceInv, InSetup
<1>3. ResultsInv'
  BY DEF TypeOK, ResultsInv
<1> QED
  BY <1>1, <1>2, <1>3

LEMMA GenerateKeeps == ASSUME IInv, NEW g \in CPUs, Generate(g) PROVE IInv'
<1> USE DEF Generate, IInv
<1>1. TypeOK'
  BY DEF TypeOK
<1>2. OnceInv'
  BY DEF OnceInv, InSetup
<1>3. ResultsInv'
  BY DEF TypeOK, ResultsInv
<1> QED
  BY <1>1, <1>2, <1>3

LEMMA HandOverKeeps ==
  ASSUME IInv, NEW g \in CPUs, NEW c \in Callers, HandOver(g, c)
  PROVE  IInv'
<1> USE DEF HandOver, IInv
<1>1. TypeOK'
  BY DEF TypeOK
<1>2. OnceInv'
  BY DEF TypeOK, OnceInv, InSetup
<1>3. ResultsInv'
  BY DEF TypeOK, ResultsInv
<1> QED
  BY <1>1, <1>2, <1>3

LEMMA CallerKeeps == ASSUME IInv, NEW c \in Callers, Caller(c) PROVE IInv'
BY DoKeeps, MakeChannelKeeps, SpawnKeeps, HandOverKeeps DEF Caller

LEMMA NextIInv == IInv /\ [Next]_vars => IInv'
<1>1. IInv /\ UNCHANGED vars => IInv'
  BY DEF IInv, TypeOK, OnceInv, ResultsInv, InSetup, vars
<1> QED
  BY <1>1, CallerKeeps, GenerateKeeps DEF Next

-----------------------------------------------------------------------------

\* In every reachable state.
THEOREM Invariance == Spec => []IInv
  BY InitIInv, NextIInv, PTL DEF Spec

\* Every variable keeps its type; no more generators start than there are CPUs.
THEOREM TypeCorrectness == Spec => []TypeOK
  BY Invariance, PTL DEF IInv

\* The channel is made once, whichever caller is first, and nobody receives
\* from another one.
THEOREM PoolIsSetUpOnce == Spec => []OnePool
<1>1. IInv => OnePool
  BY DEF IInv, TypeOK, OnceInv, InSetup, OnePool
<1> QED
  BY <1>1, Invariance, PTL

\* No two callers get the same key.
THEOREM KeysAreDistinct == Spec => []KeysDistinct
<1>1. IInv => KeysDistinct
  BY DEF IInv, ResultsInv, KeysDistinct
<1> QED
  BY <1>1, Invariance, PTL

-----------------------------------------------------------------------------
(* The certificates: the inductive invariant.                              *)

Types ==
  /\ issuer \in [Callers -> Callers]
  /\ issued = [c \in Callers |-> issued[c]]

\* A caller that has a CA got it from a call that returned, and only calls get
\* as far as to ask for a key.
IssuersInv ==
  \A c \in Callers :
    /\ issuer[c] # c => issuer[c] \in CACallers /\ Usable(issuer[c])
    /\ c \in CACallers => issuer[c] = c
    /\ at[c] # "start" => c \in CACallers \/ issuer[c] # c

\* What a call returned is made of the key it got and the one its issuer got.
Signed(c) ==
  [key |-> got[c], certificate |-> Certificate(got[c], c, issuer[c], got[issuer[c]])]

IssuedInv ==
  \A c \in Callers : Usable(c) =>
    at[c] = "done" /\ got[c] \notin FailedResults /\ issued[c] = Signed(c)

CAInv == IInv /\ Types /\ IssuersInv /\ IssuedInv

-----------------------------------------------------------------------------
(* Each step preserves it.                                                 *)

LEMMA InitCAInv == CAInit => CAInv
BY InitIInv, CAAssumption
DEF CAInit, CAInv, Types, IssuersInv, IssuedInv, Usable, Init

LEMMA UseCAKeeps ==
  ASSUME CAInv, NEW c \in Callers, NEW ca \in Callers, UseCA(c, ca)
  PROVE  CAInv'
<1> USE DEF CAInv, UseCA, vars
<1>1. IInv'
  BY DEF IInv, TypeOK, OnceInv, ResultsInv, InSetup
<1>2. Types'
  BY DEF Types
<1>3. ~Usable(c)
  BY DEF IInv, IssuedInv
<1>4. IssuersInv'
  BY DEF Types, IssuersInv, Usable
<1>5. IssuedInv'
  <2> SUFFICES ASSUME NEW d \in Callers, Usable(d)'
               PROVE  (at[d] = "done" /\ got[d] \notin FailedResults /\ issued[d] = Signed(d))'
    BY DEF IssuedInv
  <2>1. Usable(d) /\ d # c
    BY <1>3 DEF Usable
  <2> QED
    BY <2>1 DEF Types, IssuedInv, Signed
<1> QED
  BY <1>1, <1>2, <1>4, <1>5

LEMMA NoSerialKeeps == ASSUME CAInv, NEW c \in Callers, NoSerial(c) PROVE CAInv'
<1> USE DEF CAInv, NoSerial, Called, vars
<1>1. IInv'
  BY DEF IInv, TypeOK, OnceInv, ResultsInv, InSetup
<1>2. Types'
  BY DEF Types
<1>3. \A d \in Callers : Usable(d)' <=> Usable(d)
  BY DEF Types, Usable
<1>4. IssuersInv'
  BY <1>3, CAAssumption DEF Types, IssuersInv
<1>5. IssuedInv'
  BY <1>3 DEF Types, IssuedInv, Signed, Usable
<1> QED
  BY <1>1, <1>2, <1>4, <1>5

LEMMA SignKeeps == ASSUME CAInv, NEW c \in Callers, Sign(c) PROVE CAInv'
<1> USE DEF CAInv, Sign, vars
<1>1. IInv'
  BY DEF IInv, TypeOK, OnceInv, ResultsInv, InSetup
<1>2. Types'
  BY DEF Types
<1>3. \A d \in Callers : Usable(d) => Usable(d)' /\ d # c /\ issued'[d] = issued[d]
  BY DEF Types, Usable
<1>4. IssuersInv'
  BY <1>3, CAAssumption DEF Types, IssuersInv
<1>5. issuer[c] # c => issued[issuer[c]].key = got[issuer[c]]
  <2> SUFFICES ASSUME issuer[c] # c PROVE issued[issuer[c]].key = got[issuer[c]]
    OBVIOUS
  <2>1. issuer[c] \in Callers /\ issued[issuer[c]] = Signed(issuer[c])
    BY DEF Types, IssuersInv, IssuedInv
  <2> QED
    BY <2>1 DEF Signed
<1>6. Usable(c)' => got[c] \notin FailedResults /\ issued'[c] = Signed(c)
  <2>1. CASE issued' = [issued EXCEPT ![c] = Failed]
    <3>1. issued'[c] = Failed
      BY <2>1 DEF Types
    <3> QED
      BY <3>1 DEF Usable
  <2>2. CASE issued' # [issued EXCEPT ![c] = Failed]
    <3> DEFINE signer == IF issuer[c] = c THEN got[c] ELSE issued[issuer[c]].key
    <3>1. signer = got[issuer[c]]
      BY <1>5
    <3>2. /\ got[c] \notin FailedResults
          /\ issued' = [issued EXCEPT ![c] =
               [key |-> got[c], certificate |-> Certificate(got[c], c, issuer[c], signer)]]
      BY <2>2
    <3>3. issued'[c] =
            [key |-> got[c], certificate |-> Certificate(got[c], c, issuer[c], signer)]
      BY <3>2 DEF Types
    <3> HIDE DEF signer
    <3> QED
      BY <3>1, <3>2, <3>3 DEF Signed
  <2> QED
    BY <2>1, <2>2
<1>7. IssuedInv'
  <2> SUFFICES ASSUME NEW d \in Callers, Usable(d)'
               PROVE  (at[d] = "done" /\ got[d] \notin FailedResults /\ issued[d] = Signed(d))'
    BY DEF IssuedInv
  <2>1. CASE d = c
    BY <2>1, <1>6 DEF Signed
  <2>2. CASE d # c
    BY <2>2 DEF Types, IssuedInv, Usable, Signed
  <2> QED
    BY <2>1, <2>2
<1> QED
  BY <1>1, <1>2, <1>4, <1>7

\* A key that was handed out stays with its caller, whatever the pool does.
LEMMA KeysStay ==
  ASSUME IInv, GenerateRsaKey, NEW c \in Callers
  PROVE  /\ at[c] = "done" => at'[c] = "done" /\ got'[c] = got[c]
         /\ at'[c] # "start" => at[c] # "start" \/ Called(c)
<1>1. ASSUME NEW d \in Callers, Called(d), Caller(d)
      PROVE  /\ at[c] = "done" => at'[c] = "done" /\ got'[c] = got[c]
             /\ at'[c] # "start" => at[c] # "start" \/ Called(c)
  <2>1. c # d => at'[c] = at[c] /\ got'[c] = got[c]
    BY <1>1 DEF IInv, TypeOK, Caller, Do, MakeChannel, Spawn, Receive, HandOver
  <2>2. at[d] # "done"
    BY <1>1 DEF Caller, Do, MakeChannel, Spawn, HandOver
  <2> QED
    BY <1>1, <2>1, <2>2
<1>2. ASSUME NEW g \in CPUs, Generate(g)
      PROVE  at'[c] = at[c] /\ got'[c] = got[c]
  BY <1>2 DEF Generate
<1> QED
  BY <1>1, <1>2 DEF GenerateRsaKey

LEMMA GenerateRsaKeyKeeps == ASSUME CAInv, GenerateRsaKey PROVE CAInv'
<1>1. IInv'
  BY CallerKeeps, GenerateKeeps DEF CAInv, GenerateRsaKey
<1>2. UNCHANGED caVars
  BY DEF GenerateRsaKey
<1>3. Types'
  BY <1>2 DEF CAInv, Types, caVars
<1>4. IssuersInv'
  BY <1>2, KeysStay DEF CAInv, IssuersInv, Usable, Called, caVars
<1>5. IssuedInv'
  <2> SUFFICES ASSUME NEW c \in Callers, Usable(c)'
               PROVE  (at[c] = "done" /\ got[c] \notin FailedResults /\ issued[c] = Signed(c))'
    BY DEF IssuedInv
  <2>1. Usable(c) /\ at[c] = "done" /\ got[c] \notin FailedResults /\ issued[c] = Signed(c)
    BY <1>2 DEF CAInv, IssuedInv, Usable, caVars
  <2>2. issuer[c] \in Callers /\ at[issuer[c]] = "done"
    BY <2>1 DEF CAInv, Types, IssuersInv, IssuedInv
  <2>3. got'[c] = got[c] /\ at'[c] = "done" /\ got'[issuer[c]] = got[issuer[c]]
    BY <2>1, <2>2, KeysStay DEF CAInv
  <2> QED
    BY <1>2, <2>1, <2>3 DEF Signed, caVars
<1> QED
  BY <1>1, <1>3, <1>4, <1>5 DEF CAInv

LEMMA CANextCAInv == CAInv /\ [CANext]_<<vars, caVars>> => CAInv'
<1>1. CAInv /\ UNCHANGED <<vars, caVars>> => CAInv'
  <2> SUFFICES ASSUME CAInv, UNCHANGED <<vars, caVars>> PROVE CAInv'
    OBVIOUS
  <2> USE DEF CAInv, vars, caVars
  <2>1. IInv'
    BY NextIInv
  <2>2. Types' /\ IssuersInv'
    BY DEF Types, IssuersInv, Usable
  <2>3. IssuedInv'
    BY DEF IssuedInv, Usable, Signed
  <2> QED
    BY <2>1, <2>2, <2>3
<1> QED
  BY <1>1, UseCAKeeps, NoSerialKeeps, SignKeeps, GenerateRsaKeyKeeps
  DEF CANext, Finished

-----------------------------------------------------------------------------

\* In every reachable state.
THEOREM CAInvariance == CASpec => []CAInv
  BY InitCAInv, CANextCAInv, PTL DEF CASpec

\* Every certificate that is returned is for the key it comes with, and was
\* signed with the key in the certificate of its CA.
THEOREM CertificatesVerify == CASpec => []Verifies
<1>1. CAInv => Verifies
  <2> SUFFICES ASSUME CAInv, NEW c \in Callers, Usable(c),
                      NEW cert \in issued[c].certificate,
                      NEW root \in issued[issuer[c]].certificate
               PROVE  /\ cert.publicKey = issued[c].key
                      /\ cert.issuer = root.subject
                      /\ cert.signedWith = root.publicKey
    BY DEF Verifies
  <2>1. issued[c] = Signed(c) /\ issuer[c] \in Callers
    BY DEF CAInv, Types, IssuedInv
  <2>2. issued[issuer[c]] = Signed(issuer[c])
    BY <2>1 DEF CAInv, IssuersInv, IssuedInv
  <2> QED
    BY <2>1, <2>2 DEF Signed, Certificate
<1> QED
  BY <1>1, CAInvariance, PTL

\* No two certificates have the same key, and a failed key generation never
\* ends up in one.
THEOREM KeysAreTheirOwn == CASpec => []OwnKeys
<1>1. CAInv => OwnKeys
  <2> SUFFICES ASSUME CAInv, NEW c \in Callers, NEW d \in Callers, Usable(c)
               PROVE  /\ issued[c].key \notin FailedResults
                      /\ Usable(d) /\ c # d => issued[c].key # issued[d].key
    BY DEF OwnKeys
  <2>1. ASSUME NEW e \in Callers, Usable(e)
        PROVE  at[e] = "done" /\ got[e] \notin FailedResults /\ issued[e].key = got[e]
    <3>1. /\ at[e] = "done"
          /\ got[e] \notin FailedResults
          /\ issued[e] = Signed(e)
      BY <2>1 DEF CAInv, IssuedInv
    <3> QED
      BY <3>1 DEF Signed
  <2> QED
    BY <2>1 DEF CAInv, IInv, ResultsInv
<1> QED
  BY <1>1, CAInvariance, PTL

=============================================================================
