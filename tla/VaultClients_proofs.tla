------------------------- MODULE VaultClients_proofs -------------------------
(* Proofs about VaultClients, for any rows, addresses and settings and for  *)
(* any number of versions.                                                  *)
EXTENDS VaultClients, TLAPS

(* What a row addresses, and the documents a store or an outsider writes.   *)
LEMMA Addressing ==
  ASSUME NEW r \in Rows
  PROVE  /\ Upstream(r) \in Secrets
         /\ Field(r) \in Keys
         /\ FetchVersion(r) \in Nat \cup {Latest}
         /\ \A v \in Values : /\ Document(r, v) \in Documents
                              /\ Document(r, v)[Field(r)] = v
<1> USE AddressAssumption, NamesAssumption
<1>1. /\ Address[r] \in Addresses
      /\ Address[r].provider \in Providers /\ Address[r].project \in Projects
      /\ Address[r].name \in Names /\ Address[r].key \in Keys
      /\ Address[r].version \in Nat \cup {Latest}
  BY DEF Addresses
<1>2. Upstream(r) \in Secrets
  BY <1>1 DEF Upstream, Secrets
<1>3. Field(r) \in Keys
  BY <1>1 DEF Field
<1>4. FetchVersion(r) \in Nat \cup {Latest}
  BY <1>1 DEF FetchVersion
<1>5. \A v \in Values : /\ Document(r, v) \in Documents
                        /\ Document(r, v)[Field(r)] = v
  BY <1>3 DEF Document, Documents
<1>6. QED
  BY <1>2, <1>3, <1>4, <1>5

(* A fetch returns a text or nothing.                                       *)
LEMMA FetchType ==
  ASSUME TypeOK, NEW r \in Rows
  PROVE  Fetched(r) \in Values \cup {NoValue}
<1> DEFINE docs == versions[Upstream(r)]
           n == IF FetchVersion(r) = Latest THEN Len(docs) ELSE FetchVersion(r)
<1>1. docs \in Seq(Documents)
  BY Addressing DEF TypeOK
<1>2. ASSUME n \in 1 .. Len(docs)
      PROVE  docs[n][Field(r)] \in Values \cup {NoValue}
  <2>1. docs[n] \in Documents
    BY <1>1, <1>2
  <2>2. QED
    BY <2>1, Addressing DEF Documents
<1>3. CASE r \in Ready /\ n \in 1 .. Len(docs)
  <2>1. Fetched(r) = Returned(r, docs[n][Field(r)])
    BY <1>3 DEF Fetched
  <2>2. QED
    BY <2>1, <1>2, <1>3 DEF Returned
<1>4. CASE ~(r \in Ready /\ n \in 1 .. Len(docs))
  BY <1>4 DEF Fetched
<1>5. QED
  BY <1>3, <1>4

(* What has been fetched is fetched alike: it is not Google's empty value,  *)
(* and no row with a path without a version has it.                        *)
LEMMA FetchOnce ==
  ASSUME TypeOK, NEW r \in Rows, Fetched(r) # NoValue
  PROVE  /\ Returned(r, Fetched(r)) = Fetched(r)
         /\ ~Unversioned(r)
         /\ r \in Ready
<1> DEFINE docs == versions[Upstream(r)]
           n == IF FetchVersion(r) = Latest THEN Len(docs) ELSE FetchVersion(r)
<1>1. /\ r \in Ready /\ n \in 1 .. Len(docs)
      /\ Fetched(r) = Returned(r, docs[n][Field(r)])
  BY DEF Fetched
<1>2. Returned(r, Fetched(r)) = Fetched(r)
  BY <1>1 DEF Returned
<1>3. ASSUME Unversioned(r) PROVE FALSE
  <2>1. FetchVersion(r) = 0
    BY <1>3 DEF Unversioned, FetchVersion, NoVersion
  <2>2. QED
    BY <2>1, <1>1 DEF Latest
<1>4. QED
  BY <1>1, <1>2, <1>3

(* And nothing is ever fetched without a version.                           *)
LEMMA NeverFetched ==
  ASSUME NEW r \in Rows, Unversioned(r)
  PROVE  Fetched(r) = NoValue /\ Fetched(r)' = NoValue
<1>1. FetchVersion(r) = 0
  BY DEF Unversioned, FetchVersion, NoVersion
<1>2. 0 # Latest
  BY DEF Latest
<1>3. QED
  BY <1>1, <1>2 DEF Fetched

(* A row that is not pinned and has a version in its path, or needs none,   *)
(* is fetched from the latest version.                                      *)
LEMMA FetchesLatest ==
  ASSUME NEW r \in Rows, ~Pinned(r), ~Unversioned(r)
  PROVE  FetchVersion(r) = Latest
<1>1. Address[r].version \in Nat \cup {Latest}
  BY AddressAssumption DEF Addresses
<1>2. QED
  BY <1>1 DEF Pinned, Unversioned, FetchVersion, NoVersion

(* Nothing changes for a row whose upstream secret gets no version.         *)
LEMMA FetchKept ==
  ASSUME NEW r \in Rows, versions'[Upstream(r)] = versions[Upstream(r)]
  PROVE  Fetched(r)' = Fetched(r)
BY DEF Fetched

(* After a store the latest version of the row's secret has the value.      *)
LEMMA FetchStored ==
  ASSUME TypeOK, NEW r \in Rows, NEW v \in Values, r \in Ready,
         FetchVersion(r) = Latest,
         AddVersion(Upstream(r), Document(r, v))
  PROVE  Fetched(r)' = Returned(r, v)
<1> DEFINE docs == versions[Upstream(r)]
<1>1. docs \in Seq(Documents) /\ Document(r, v) \in Documents
  BY Addressing DEF TypeOK
<1>2. versions'[Upstream(r)] = Append(docs, Document(r, v))
  BY Addressing DEF AddVersion, TypeOK
<1>3. /\ Len(versions'[Upstream(r)]) = Len(docs) + 1
      /\ Len(docs) \in Nat
      /\ versions'[Upstream(r)][Len(docs) + 1] = Document(r, v)
  BY <1>1, <1>2
<1>4. /\ Len(versions'[Upstream(r)]) \in 1 .. Len(versions'[Upstream(r)])
      /\ versions'[Upstream(r)][Len(versions'[Upstream(r)])][Field(r)] = v
  BY <1>3, Addressing
<1>5. QED
  BY <1>4 DEF Fetched

(* A new version of one secret leaves the documents of the others.          *)
LEMMA VersionType ==
  ASSUME TypeOK, NEW s \in Secrets, NEW d \in Documents, AddVersion(s, d)
  PROVE  /\ versions' \in [Secrets -> Seq(Documents)]
         /\ \A q \in Rows : Upstream(q) # s =>
              versions'[Upstream(q)] = versions[Upstream(q)]
BY Addressing DEF TypeOK, AddVersion

(* Every step keeps the invariant.                                          *)
LEMMA InvStep ==
  ASSUME Inv, [Next]_vars
  PROVE  Inv'
<1> USE DEF Inv, ReadBack, Undisturbed
<1>1. ASSUME NEW r \in Rows, Refresh(r) PROVE Inv'
  <2>1. \A q \in Rows : Fetched(q)' = Fetched(q)
    BY <1>1, FetchKept DEF Refresh
  <2>2. TypeOK'
    BY <1>1, FetchType DEF Refresh, TypeOK
  <2>3. /\ Returned(r, Fetched(r)) = Fetched(r)
        /\ ~Unversioned(r)
        /\ r \in Ready
    BY <1>1, FetchOnce DEF Refresh
  <2>4. QED
    BY <1>1, <2>1, <2>2, <2>3 DEF Refresh, TypeOK
<1>2. ASSUME NEW r \in Rows, NEW v \in Values, Set(r, v) PROVE Inv'
  <2>1. Upstream(r) \in Secrets /\ Document(r, v) \in Documents
    BY Addressing
  <2>2. AddVersion(Upstream(r), Document(r, v)) /\ r \in Ready
    BY <1>2 DEF Set, Accepted
  <2>3. TypeOK'
    BY <1>2, <2>1, <2>2, VersionType DEF Set, TypeOK
  <2>4. ASSUME NEW q \in Rows, alone'[q], ~Pinned(q)
        PROVE  Fetched(q)' = IF Unversioned(q) THEN NoValue
                             ELSE Returned(q, cached'[q])
    <3>1. CASE q # r
      <4>1. alone[q] /\ Upstream(q) # Upstream(r) /\ cached'[q] = cached[q]
        BY <1>2, <2>4, <3>1 DEF Set, TypeOK
      <4>2. Fetched(q)' = Fetched(q)
        BY <4>1, <2>1, <2>2, VersionType, FetchKept
      <4>3. QED
        BY <2>4, <4>1, <4>2
    <3>2. CASE q = r
      <4>1. cached'[r] = v
        BY <1>2 DEF Set, TypeOK
      <4>2. CASE Unversioned(r)
        BY <3>2, <4>2, NeverFetched
      <4>3. CASE ~Unversioned(r)
        BY <2>2, <2>4, <3>2, <4>1, <4>3, FetchesLatest, FetchStored
      <4>4. QED
        BY <4>2, <4>3
    <3>3. QED
      BY <3>1, <3>2
  <2>5. \A q \in Rows : alone'[q] => q \in Ready
    BY <1>2, <2>1, <2>2 DEF Set, TypeOK
  <2>6. QED
    BY <2>3, <2>4, <2>5
<1>3. ASSUME NEW s \in Secrets, NEW d \in Documents, AddVersion(s, d),
             alone' = Undisturbed(s), UNCHANGED cached
      PROVE  Inv'
  <2>1. TypeOK'
    BY <1>3, VersionType DEF TypeOK
  <2>2. ASSUME NEW q \in Rows, alone'[q]
        PROVE  alone[q] /\ Fetched(q)' = Fetched(q)
    <3>1. alone[q] /\ Upstream(q) # s
      BY <1>3, <2>2
    <3>2. QED
      BY <3>1, <1>3, VersionType, FetchKept
  <2>3. QED
    BY <1>3, <2>1, <2>2
<1>4. ASSUME NEW r \in Rows, NEW v \in Values, SetReplyLost(r, v) PROVE Inv'
  BY <1>3, <1>4, Addressing DEF SetReplyLost
<1>5. ASSUME NEW r \in Rows, NEW d \in Documents, Outsider(Upstream(r), d)
      PROVE  Inv'
  BY <1>3, <1>5, Addressing DEF Outsider
<1>6. CASE UNCHANGED vars
  <2>1. \A q \in Rows : Fetched(q)' = Fetched(q)
    BY <1>6, FetchKept DEF vars
  <2>2. QED
    BY <1>6, <2>1 DEF vars, TypeOK
<1>7. QED
  BY <1>1, <1>2, <1>4, <1>5, <1>6 DEF Next

(* The inductive invariant holds in every reachable state.                  *)
THEOREM Invariance == Spec => []Inv
<1>1. Init => Inv
  BY DEF Init, Inv, TypeOK, ReadBack
<1>2. QED
  BY <1>1, InvStep, PTL DEF Spec

(* Every variable has its type in every reachable state.                    *)
THEOREM Typing == Spec => []TypeOK
BY Invariance, PTL DEF Inv

(* Until somebody else writes its upstream secret, the next refresh of a    *)
(* row that is not pinned gets what its last refresh or set has cached, but *)
(* for an empty value of Google; and nothing if its path has no version.    *)
THEOREM ReadsBack == Spec => []ReadBack
BY Invariance, PTL DEF Inv

(* A version, once written, stays: what a pinned row fetches is unchanged   *)
(* by sets, lost replies and outsiders.                                     *)
THEOREM PinnedRowsStay == Spec => PinnedStays
<1> DEFINE Stays == \A r \in Rows : Pinned(r) /\ Fetched(r) # NoValue =>
                      Fetched(r)' = Fetched(r)
<1>1. ASSUME Inv, [Next]_vars, NEW r \in Rows, Pinned(r),
             Fetched(r) # NoValue
      PROVE  Fetched(r)' = Fetched(r)
  <2> DEFINE s == Upstream(r)
             n == FetchVersion(r)
  <2>1. TypeOK /\ s \in Secrets
    BY <1>1, Addressing DEF Inv
  <2>2. n \in Nat /\ n # Latest /\ n \in 1 .. Len(versions[s])
    <3>1. n = Address[r].version /\ n \in Nat
      BY <1>1 DEF Pinned, FetchVersion
    <3>2. n # Latest
      BY <3>1 DEF Latest
    <3>3. QED
      BY <1>1, <3>1, <3>2 DEF Fetched
  <2>3. /\ Len(versions'[s]) \in Nat
        /\ n \in 1 .. Len(versions'[s])
        /\ versions'[s][n] = versions[s][n]
    <3>1. ASSUME NEW t \in Secrets, NEW d \in Documents, AddVersion(t, d)
          PROVE  /\ Len(versions'[s]) \in Nat
                 /\ n \in 1 .. Len(versions'[s])
                 /\ versions'[s][n] = versions[s][n]
      <4>1. versions[s] \in Seq(Documents)
        BY <2>1 DEF TypeOK
      <4>2. versions'[s] = versions[s] \/ versions'[s] = Append(versions[s], d)
        BY <2>1, <3>1 DEF TypeOK, AddVersion
      <4>3. QED
        BY <2>2, <4>1, <4>2
    <3>2. CASE versions' = versions
      BY <2>1, <2>2, <3>2 DEF TypeOK
    <3>3. \/ versions' = versions
          \/ \E t \in Secrets, d \in Documents : AddVersion(t, d)
      BY <1>1, Addressing
         DEF Next, Refresh, Set, SetReplyLost, Outsider, vars
    <3>4. QED
      BY <3>1, <3>2, <3>3
  <2>4. QED
    BY <2>2, <2>3 DEF Fetched
<1>2. Inv /\ [Next]_vars => Stays
  BY <1>1
<1>3. QED
  BY <1>2, Invariance, PTL DEF Spec, PinnedStays
=============================================================================
