------------------------------ MODULE DnsProofs -----------------------------
(***************************************************************************)
(* Module DnsSync for any runs, targets, addresses, leases and faults:      *)
(* types, that no record joins a name and an SDN address that were never    *)
(* together, and what the exit code 0 says.                                 *)
(***************************************************************************)
EXTENDS DnsSync, SequenceTheorems, TLAPS

-----------------------------------------------------------------------------
(* Names.                                                                  *)

LEMMA TargetFacts ==
    /\ Len(Target) \in Nat \ {0}
    /\ DOMAIN Target = 1..Len(Target)
    /\ \A i \in 1..Len(Target) : Target[i] \in Name
    /\ \A n \in Name : \E i \in 1..Len(Target) : n = Target[i]
    /\ None \notin Name
<1>1. Target \in Seq(STRING) /\ Target # <<>>
  BY TargetAssumption
<1>2. Len(Target) \in Nat \ {0} /\ DOMAIN Target = 1..Len(Target)
  BY <1>1
<1> QED BY <1>2, TargetAssumption DEF Name, ToSet

\* Two addresses have different names in the reverse zone: no octet is lost in
\* turning one round, whatever the zone is.
LEMMA ReverseNameInjective ==
  ASSUME NEW x \in Seen, NEW y \in Seen, ReverseName(x) = ReverseName(y)
  PROVE  x = y
<1> DEFINE Label == Nat \cup STRING
<1>1. x \in Seq(Nat) /\ y \in Seq(Nat) /\ Zone \in Seq(Label)
  BY AddrAssumption, ZoneAssumption DEF Seen
<1>2. ASSUME NEW z \in Seq(Nat)
      PROVE  /\ Reverse(z) \in Seq(Label) /\ Len(Reverse(z)) = Len(z)
             /\ \A i \in 1..Len(z) : Reverse(z)[i] = z[(Len(z) - i) + 1]
  BY <1>2 DEF Reverse
<1>3. ASSUME NEW z \in Seq(Nat)
      PROVE  /\ Len(Reverse(z) \o Zone) = Len(z) + Len(Zone)
             /\ \A i \in 1..Len(z) : (Reverse(z) \o Zone)[i] = z[(Len(z) - i) + 1]
  <2>1. Reverse(z) \in Seq(Label) /\ Len(Reverse(z)) = Len(z)
    BY <1>2, <1>3
  <2>2. /\ Len(Reverse(z) \o Zone) = Len(z) + Len(Zone)
        /\ \A i \in 1..Len(z) : (Reverse(z) \o Zone)[i] = Reverse(z)[i]
    <3>1. /\ Len(Reverse(z) \o Zone) = Len(Reverse(z)) + Len(Zone)
          /\ \A i \in 1..(Len(Reverse(z)) + Len(Zone)) : (Reverse(z) \o Zone)[i] =
                IF i <= Len(Reverse(z)) THEN Reverse(z)[i] ELSE Zone[i - Len(Reverse(z))]
      <4> HIDE DEF Label
      <4> QED BY <1>1, <2>1, ConcatProperties
    <3>2. Len(z) \in Nat /\ Len(Zone) \in Nat
      BY <1>1, <1>3
    <3> QED BY <2>1, <3>1, <3>2
  <2> QED BY <1>2, <1>3, <2>2
<1>4. Len(x) = Len(y) /\ Len(x) \in Nat
  <2>1. Len(x) + Len(Zone) = Len(y) + Len(Zone)
    BY <1>1, <1>3 DEF ReverseName
  <2> QED BY <1>1, <2>1
<1>5. ASSUME NEW i \in 1..Len(x) PROVE x[i] = y[i]
  <2> DEFINE j == (Len(x) - i) + 1
  <2>1. j \in 1..Len(x) /\ (Len(x) - j) + 1 = i
    BY <1>4
  <2>2. (Reverse(x) \o Zone)[j] = x[i] /\ (Reverse(y) \o Zone)[j] = y[i]
    <3> HIDE DEF j
    <3> QED BY <1>1, <1>3, <1>4, <2>1
  <2> QED BY <2>2 DEF ReverseName
<1> QED BY <1>1, <1>4, <1>5, SeqEqual

-----------------------------------------------------------------------------
(* Types.                                                                  *)

\* A PATCH of p by a run, whatever becomes of it.
Sent(p) ==
    /\ Replace(p) \/ UNCHANGED records
    /\ late' \subseteq late \cup {p}
    /\ faults' \in {faults, faults + 1} /\ (faults' # faults => faults < Faults)
    /\ UNCHANGED <<lease, ip, tunnel, mux, changes, had, clean>>

AddressPut(s) == [type |-> "A", name |-> Target[at[s]], value |-> ip[s]]
ReversePut(s) == [type |-> "PTR", name |-> ReverseName(ip[s]), value |-> Target[at[s]]]

LEMMA PutAddressSends ==
  ASSUME NEW s \in Sync, PutAddress(s)
  PROVE  /\ Sent(AddressPut(s))
         /\ UNCHANGED at
         /\ \/ /\ Replace(AddressPut(s))
               /\ Goto(s, "PTR") /\ UNCHANGED code
            \/ \E n \in {1, 5} : Leave(s, n)
<1>1. late \subseteq late \cup {AddressPut(s)} /\ faults + 1 \in {faults, faults + 1}
  OBVIOUS
<1>2. CASE /\ tunnel # None
           /\ Replace(AddressPut(s)) /\ Goto(s, "PTR") /\ UNCHANGED <<code, at>>
           /\ UNCHANGED <<late, faults>>
           /\ UNCHANGED <<lease, ip, tunnel, mux, changes, had, clean>>
  BY <1>2 DEF Sent
<1>3. CASE /\ Fault
           /\ \/ Replace(AddressPut(s)) /\ UNCHANGED late
              \/ UNCHANGED <<records, late>>
              \/ late' = late \cup {AddressPut(s)} /\ UNCHANGED records
           /\ \E n \in {1, 5} : Leave(s, n)
           /\ UNCHANGED at
           /\ UNCHANGED <<lease, ip, tunnel, mux, changes, had, clean>>
  BY <1>3 DEF Sent, Fault
<1>4. CASE /\ Leave(s, 5)
           /\ UNCHANGED <<records, late, faults, at>>
           /\ UNCHANGED <<lease, ip, tunnel, mux, changes, had, clean>>
  BY <1>4 DEF Sent
<1> QED BY <1>2, <1>3, <1>4 DEF PutAddress, Patch, AddressPut

LEMMA PutReverseSends ==
  ASSUME NEW s \in Sync, PutReverse(s)
  PROVE  /\ Sent(ReversePut(s))
         /\ \/ Replace(ReversePut(s)) /\ Proceed(s)
            \/ (\E n \in {1, 5} : Leave(s, n)) /\ UNCHANGED at
<1>2. CASE /\ tunnel # None
           /\ Replace(ReversePut(s)) /\ Proceed(s)
           /\ UNCHANGED <<late, faults>>
           /\ UNCHANGED <<lease, ip, tunnel, mux, changes, had, clean>>
  BY <1>2 DEF Sent
<1>3. CASE /\ Fault
           /\ \/ Replace(ReversePut(s)) /\ UNCHANGED late
              \/ UNCHANGED <<records, late>>
              \/ late' = late \cup {ReversePut(s)} /\ UNCHANGED records
           /\ \E n \in {1, 5} : Leave(s, n)
           /\ UNCHANGED at
           /\ UNCHANGED <<lease, ip, tunnel, mux, changes, had, clean>>
  BY <1>3 DEF Sent, Fault
<1>4. CASE /\ Leave(s, 5)
           /\ UNCHANGED <<records, late, faults, at>>
           /\ UNCHANGED <<lease, ip, tunnel, mux, changes, had, clean>>
  BY <1>4 DEF Sent
<1> QED BY <1>2, <1>3, <1>4 DEF PutReverse, Patch, ReversePut

\* A run at a PATCH has an address to put.
Asked == \A s \in Sync : pc[s] \in {"A", "PTR"} => ip[s] \in Seen

\* What a run sends is a record for PowerDNS.
LEMMA PutType ==
  ASSUME TypeOK, Asked, NEW s \in Sync, pc[s] \in {"A", "PTR"}
  PROVE  AddressPut(s) \in Put /\ ReversePut(s) \in Put
<1>1. Target[at[s]] \in Name /\ ip[s] \in Seen
  BY TargetFacts DEF TypeOK, Asked
<1>2. ReverseName(ip[s]) \in ReverseNames
  BY <1>1 DEF ReverseNames
<1> QED BY <1>1, <1>2 DEF AddressPut, ReversePut, Put

LEMMA ReplaceType ==
  ASSUME TypeOK, NEW p \in Put, Replace(p)
  PROVE  /\ a' \in [Name -> Seen \cup {None}]
         /\ ptr' \in [ReverseNames -> Name \cup {None}]
<1>1. CASE p \in [type : {"A"}, name : Name, value : Seen]
  BY <1>1 DEF Replace, TypeOK
<1>2. CASE p \in [type : {"PTR"}, name : ReverseNames, value : Name]
  BY <1>2 DEF Replace, TypeOK
<1> QED BY <1>1, <1>2 DEF Put

LEMMA SentType ==
  ASSUME TypeOK, NEW p \in Put, Sent(p)
  PROVE  /\ a' \in [Name -> Seen \cup {None}]
         /\ ptr' \in [ReverseNames -> Name \cup {None}]
         /\ late' \subseteq Put
         /\ faults' \in 0..Faults
         /\ UNCHANGED <<lease, ip, tunnel, mux, changes, had, clean>>
<1>1. /\ a' \in [Name -> Seen \cup {None}]
      /\ ptr' \in [ReverseNames -> Name \cup {None}]
  BY ReplaceType DEF Sent, TypeOK, records
<1>2. faults' \in 0..Faults
  BY BoundAssumption DEF Sent, TypeOK
<1> QED BY <1>1, <1>2 DEF Sent, TypeOK

LEMMA ProceedType ==
  ASSUME TypeOK, NEW s \in Sync, Proceed(s)
  PROVE  /\ pc' \in [Sync -> {"idle", "query", "A", "PTR", "close"}]
         /\ code' \in [Sync -> 0..5] /\ at' \in [Sync -> DOMAIN Target]
<1>1. CASE at[s] < Len(Target)
  <2>1. at[s] + 1 \in DOMAIN Target
    BY <1>1, TargetFacts DEF TypeOK
  <2> QED BY <1>1, <2>1 DEF Proceed, Goto, TypeOK
<1>2. CASE ~(at[s] < Len(Target))
  <2>1. UNCHANGED at /\ pc' = [pc EXCEPT ![s] = "close"] /\ code' = [code EXCEPT ![s] = 0]
    BY <1>2 DEF Proceed, Leave, Goto
  <2> QED BY <2>1 DEF TypeOK
<1> QED BY <1>1, <1>2

TypeInv == TypeOK /\ Asked

LEMMA InitTypes == Init => TypeInv
<1> SUFFICES ASSUME Init PROVE TypeInv
  OBVIOUS
<1>1. 1 \in DOMAIN Target
  BY TargetFacts
<1>2. 0 \in 0..Changes /\ 0 \in 0..Faults
  BY BoundAssumption
<1>3. had \in [Name -> SUBSET Addr]
  BY DEF Init
<1> QED BY <1>1, <1>2, <1>3 DEF Init, TypeInv, TypeOK, Asked

LEMMA StepTypes ==
  ASSUME TypeInv, [Next]_vars
  PROVE  TypeInv'
<1> USE BoundAssumption DEF records, counters
<1>0. TypeOK /\ Asked
  BY DEF TypeInv
<1>1. CASE UNCHANGED vars
  BY <1>1, <1>0 DEF vars, TypeInv, TypeOK, Asked
<1>2. ASSUME NEW s \in Sync, OpenTunnel(s) PROVE TypeInv'
  <2>1. 1 \in DOMAIN Target
    BY TargetFacts
  <2>2. TypeOK'
    BY <1>0, <1>2, <2>1 DEF OpenTunnel, Fault, Goto, TypeOK
  <2> QED BY <1>0, <1>2, <2>2 DEF OpenTunnel, Goto, TypeInv, TypeOK, Asked
<1>3. ASSUME NEW s \in Sync, GetAddress(s) PROVE TypeInv'
  <2>1. lease[Target[at[s]]] \in Seen /\ Other \subseteq Seen
    BY <1>0, TargetFacts DEF TypeOK, Seen
  <2>2. TypeOK'
    BY <1>0, <1>3, <2>1 DEF GetAddress, Leave, Fault, Goto, TypeOK
  <2>3. Asked'
    BY <1>0, <1>3, <2>1 DEF GetAddress, Leave, Goto, TypeOK, Asked
  <2> QED BY <2>2, <2>3 DEF TypeInv
<1>4. ASSUME NEW s \in Sync, PutAddress(s) PROVE TypeInv'
  <2>1. AddressPut(s) \in Put
    BY <1>0, <1>4, PutType DEF PutAddress
  <2>2. /\ a' \in [Name -> Seen \cup {None}]
        /\ ptr' \in [ReverseNames -> Name \cup {None}]
        /\ late' \subseteq Put /\ faults' \in 0..Faults
        /\ UNCHANGED <<lease, ip, tunnel, mux, changes, had, clean>>
    BY <1>0, <1>4, <2>1, PutAddressSends, SentType
  <2>3. /\ UNCHANGED at
        /\ \/ Goto(s, "PTR") /\ UNCHANGED code
           \/ \E n \in {1, 5} : Leave(s, n)
    BY <1>4, PutAddressSends
  <2>4. TypeOK'
    BY <1>0, <2>2, <2>3 DEF Leave, Goto, TypeOK
  <2>5. pc[s] = "A"
    BY <1>4 DEF PutAddress
  <2>6. Asked'
    BY <1>0, <2>2, <2>3, <2>5 DEF Leave, Goto, TypeOK, Asked
  <2> QED BY <2>4, <2>6 DEF TypeInv
<1>5. ASSUME NEW s \in Sync, PutReverse(s) PROVE TypeInv'
  <2>1. ReversePut(s) \in Put
    BY <1>0, <1>5, PutType DEF PutReverse
  <2>2. /\ a' \in [Name -> Seen \cup {None}]
        /\ ptr' \in [ReverseNames -> Name \cup {None}]
        /\ late' \subseteq Put /\ faults' \in 0..Faults
        /\ UNCHANGED <<lease, ip, tunnel, mux, changes, had, clean>>
    BY <1>0, <1>5, <2>1, PutReverseSends, SentType
  <2>3. Proceed(s) \/ ((\E n \in {1, 5} : Leave(s, n)) /\ UNCHANGED at)
    BY <1>5, PutReverseSends
  <2>4. /\ pc' \in [Sync -> {"idle", "query", "A", "PTR", "close"}]
        /\ code' \in [Sync -> 0..5] /\ at' \in [Sync -> DOMAIN Target]
    BY <1>0, <2>3, ProceedType DEF Leave, Goto, TypeOK
  <2>5. TypeOK'
    BY <1>0, <2>2, <2>4 DEF TypeOK
  <2>6. Asked'
    BY <1>0, <2>2, <2>3 DEF Proceed, Leave, Goto, TypeOK, Asked
  <2> QED BY <2>5, <2>6 DEF TypeInv
<1>6. ASSUME NEW s \in Sync, CloseTunnel(s) \/ Kill(s) PROVE TypeInv'
  <2>1. TypeOK'
    BY <1>0, <1>6 DEF CloseTunnel, Kill, Fault, Goto, TypeOK
  <2> QED BY <1>0, <1>6, <2>1 DEF CloseTunnel, Kill, Goto, TypeInv, TypeOK, Asked
<1>7. CASE SshDies \/ Release
  <2>1. TypeOK'
    BY <1>0, <1>7 DEF SshDies, Release, Fault, TypeOK
  <2> QED BY <1>0, <1>7, <2>1 DEF SshDies, Release, TypeInv, Asked
<1>8. CASE Land
  <2>1. PICK p \in late : Replace(p) /\ late' = late \ {p}
    BY <1>8 DEF Land
  <2>2. p \in Put
    BY <1>0 DEF TypeOK
  <2>3. TypeOK'
    BY <1>0, <1>8, <2>1, <2>2, ReplaceType DEF Land, TypeOK
  <2> QED BY <1>0, <1>8, <2>3 DEF Land, TypeInv, Asked
<1>9. ASSUME NEW n \in Name, Renew(n) PROVE TypeInv'
  <2>1. TypeOK'
    BY <1>0, <1>9 DEF Renew, TypeOK
  <2> QED BY <1>0, <1>9, <2>1 DEF Renew, TypeInv, Asked
<1> QED BY <1>1, <1>2, <1>3, <1>4, <1>5, <1>6, <1>7, <1>8, <1>9 DEF Next, Step

-----------------------------------------------------------------------------
(* No record is foreign.  A run may put its records long after it has read  *)
(* the address, and a request may land long after its run: so what is under *)
(* way must be lawful too, by what the names have ever had.                 *)

LawfulPut(p) ==
    /\ p.type = "A" /\ p.value \in Addr => p.value \in had[p.name]
    /\ p.type = "PTR" => \A x \in Addr : p.name = ReverseName(x) => x \in had[p.value]

Lawful ==
    /\ \A n \in Name : lease[n] \in had[n]
    /\ \A s \in Sync :
          pc[s] \in {"A", "PTR"} /\ ip[s] \in Addr => ip[s] \in had[Target[at[s]]]
    /\ \A p \in late : LawfulPut(p)
    /\ NeverForeign

LawInv == TypeInv /\ Lawful

LEMMA InitLaw == Init => LawInv
<1> SUFFICES ASSUME Init PROVE LawInv
  OBVIOUS
<1>1. TypeInv
  BY InitTypes
<1>2. \A x \in Addr : ReverseName(x) \in ReverseNames
  BY DEF ReverseNames, Seen
<1>3. NeverForeign
  BY <1>2, TargetFacts, AddrAssumption DEF Init, NeverForeign
<1> QED BY <1>1, <1>3 DEF Init, LawInv, Lawful

\* Replacing a record by a lawful one leaves every record lawful.
LEMMA ReplaceLawful ==
  ASSUME TypeOK, NeverForeign, NEW p \in Put, LawfulPut(p), Replace(p), had' = had
  PROVE  NeverForeign'
<1>0. \A x \in Addr : ReverseName(x) \in ReverseNames
  BY DEF ReverseNames, Seen
<1>1. CASE p \in [type : {"A"}, name : Name, value : Seen]
  <2>1. p.type = "A" /\ a' = [a EXCEPT ![p.name] = p.value] /\ ptr' = ptr
    BY <1>1 DEF Replace
  <2> QED BY <1>1, <2>1 DEF NeverForeign, LawfulPut, TypeOK
<1>2. CASE p \in [type : {"PTR"}, name : ReverseNames, value : Name]
  <2>1. p.type = "PTR" /\ ptr' = [ptr EXCEPT ![p.name] = p.value] /\ a' = a
    BY <1>2 DEF Replace
  <2>2. ASSUME NEW n \in Name, NEW x \in Addr, ptr'[ReverseName(x)] = n PROVE x \in had[n]
    <3>1. CASE ReverseName(x) = p.name
      BY <1>0, <1>2, <2>1, <2>2, <3>1 DEF LawfulPut, TypeOK
    <3>2. CASE ReverseName(x) # p.name
      BY <1>0, <2>1, <2>2, <3>2 DEF NeverForeign, TypeOK
    <3> QED BY <3>1, <3>2
  <2> QED BY <2>1, <2>2 DEF NeverForeign
<1> QED BY <1>1, <1>2 DEF Put

\* The records a run puts are lawful; that of the reverse name because the
\* address can be read off it.
LEMMA OwnPutsLawful ==
  ASSUME TypeInv, Lawful, NEW s \in Sync, pc[s] \in {"A", "PTR"}
  PROVE  LawfulPut(AddressPut(s)) /\ LawfulPut(ReversePut(s))
<1>1. /\ ip[s] \in Seen /\ Addr \subseteq Seen
      /\ ip[s] \in Addr => ip[s] \in had[Target[at[s]]]
  BY DEF TypeInv, Asked, Lawful, Seen
<1>2. ASSUME NEW x \in Addr, ReverseName(ip[s]) = ReverseName(x)
      PROVE  x \in had[Target[at[s]]]
  BY <1>1, <1>2, ReverseNameInjective
<1> QED BY <1>1, <1>2 DEF LawfulPut, AddressPut, ReversePut

LEMMA SentLawful ==
  ASSUME TypeInv, Lawful, NEW p \in Put, LawfulPut(p), Sent(p)
  PROVE  NeverForeign' /\ \A q \in late' : LawfulPut(q)'
<1>1. had' = had
  BY DEF Sent
<1>2. NeverForeign'
  <2>1. CASE Replace(p)
    BY <1>1, <2>1, ReplaceLawful DEF TypeInv, Lawful
  <2>2. CASE UNCHANGED records
    BY <1>1, <2>2 DEF records, Lawful, NeverForeign
  <2> QED BY <2>1, <2>2 DEF Sent
<1>3. \A q \in late' : LawfulPut(q)
  BY DEF Sent, Lawful
<1> QED BY <1>1, <1>2, <1>3 DEF LawfulPut

LEMMA StepLaw ==
  ASSUME LawInv, [Next]_vars
  PROVE  LawInv'
<1> USE DEF records, counters
<1>0. TypeInv /\ TypeOK /\ Lawful /\ TypeInv' /\ TypeOK'
  BY StepTypes DEF LawInv, TypeInv
<1> SUFFICES Lawful'
  BY <1>0 DEF LawInv
<1>1. CASE UNCHANGED vars
  BY <1>0, <1>1 DEF vars, Lawful, LawfulPut, NeverForeign
<1>2. ASSUME NEW s \in Sync, OpenTunnel(s) PROVE Lawful'
  <2>1. \A t \in Sync : pc'[t] \in {"A", "PTR"} =>
           pc[t] \in {"A", "PTR"} /\ at'[t] = at[t]
    BY <1>0, <1>2 DEF OpenTunnel, Goto, TypeOK
  <2>2. UNCHANGED <<lease, a, ptr, ip, late, had>>
    BY <1>2 DEF OpenTunnel
  <2> QED BY <1>0, <2>1, <2>2 DEF Lawful, LawfulPut, NeverForeign
<1>3. ASSUME NEW s \in Sync, GetAddress(s) PROVE Lawful'
  <2>1. UNCHANGED <<lease, a, ptr, at, late, had>>
    BY <1>3 DEF GetAddress
  <2>2. \A t \in Sync : pc'[t] \in {"A", "PTR"} =>
           \/ pc[t] \in {"A", "PTR"} /\ ip'[t] = ip[t]
           \/ t = s /\ ip'[t] \in {lease[Target[at[t]]]} \cup Other
    BY <1>0, <1>3 DEF GetAddress, Leave, Goto, TypeOK
  <2>3. Target[at[s]] \in Name
    BY <1>0, TargetFacts DEF TypeOK
  <2> QED BY <1>0, <2>1, <2>2, <2>3, AddrAssumption DEF Lawful, LawfulPut, NeverForeign
<1>4. ASSUME NEW s \in Sync, PutAddress(s) PROVE Lawful'
  <2>1. pc[s] = "A" /\ AddressPut(s) \in Put /\ LawfulPut(AddressPut(s))
    BY <1>0, <1>4, PutType, OwnPutsLawful DEF PutAddress, TypeInv
  <2>2. Sent(AddressPut(s)) /\ UNCHANGED at
    BY <1>4, PutAddressSends
  <2>3. NeverForeign' /\ \A q \in late' : LawfulPut(q)'
    BY <1>0, <2>1, <2>2, SentLawful
  <2>4. \A t \in Sync : pc'[t] \in {"A", "PTR"} => pc[t] \in {"A", "PTR"}
    BY <1>0, <1>4, <2>1, PutAddressSends DEF Leave, Goto, TypeOK
  <2> QED BY <1>0, <2>2, <2>3, <2>4 DEF Lawful, Sent
<1>5. ASSUME NEW s \in Sync, PutReverse(s) PROVE Lawful'
  <2>1. pc[s] = "PTR" /\ ReversePut(s) \in Put /\ LawfulPut(ReversePut(s))
    BY <1>0, <1>5, PutType, OwnPutsLawful DEF PutReverse, TypeInv
  <2>2. Sent(ReversePut(s))
    BY <1>5, PutReverseSends
  <2>3. NeverForeign' /\ \A q \in late' : LawfulPut(q)'
    BY <1>0, <2>1, <2>2, SentLawful
  <2>4. \A t \in Sync : pc'[t] \in {"A", "PTR"} => pc[t] \in {"A", "PTR"} /\ at'[t] = at[t]
    BY <1>0, <1>5, <2>1, PutReverseSends DEF Proceed, Leave, Goto, TypeOK
  <2> QED BY <1>0, <2>2, <2>3, <2>4 DEF Lawful, Sent
<1>6. ASSUME NEW s \in Sync, CloseTunnel(s) \/ Kill(s) PROVE Lawful'
  <2>1. \A t \in Sync : pc'[t] \in {"A", "PTR"} => pc[t] \in {"A", "PTR"} /\ ip'[t] = ip[t]
    BY <1>0, <1>6 DEF CloseTunnel, Kill, Goto, TypeOK
  <2>2. UNCHANGED <<lease, a, ptr, at, late, had>>
    BY <1>6 DEF CloseTunnel, Kill
  <2> QED BY <1>0, <2>1, <2>2 DEF Lawful, LawfulPut, NeverForeign
<1>7. CASE SshDies \/ Release
  BY <1>0, <1>7 DEF SshDies, Release, Lawful, LawfulPut, NeverForeign
<1>8. CASE Land
  <2>1. PICK p \in late : Replace(p) /\ late' = late \ {p}
    BY <1>8 DEF Land
  <2>2. p \in Put /\ LawfulPut(p)
    BY <1>0 DEF TypeOK, Lawful
  <2>3. UNCHANGED <<lease, pc, at, ip, had>>
    BY <1>8 DEF Land
  <2>4. NeverForeign'
    BY <1>0, <2>1, <2>2, <2>3, ReplaceLawful DEF Lawful
  <2> QED BY <1>0, <2>1, <2>3, <2>4 DEF Lawful, LawfulPut
<1>9. ASSUME NEW n \in Name, Renew(n) PROVE Lawful'
  <2>1. PICK x \in Addr : /\ lease' = [lease EXCEPT ![n] = x]
                          /\ had' = [had EXCEPT ![n] = @ \cup {x}]
    BY <1>9 DEF Renew
  <2>2. \A m \in Name : had[m] \subseteq had'[m] /\ lease'[m] \in had'[m]
    BY <1>0, <2>1 DEF TypeOK, Lawful
  <2>3. UNCHANGED <<a, ptr, pc, at, ip, late>>
    BY <1>9 DEF Renew
  <2>4. NeverForeign'
    BY <1>0, <2>2, <2>3 DEF Lawful, NeverForeign
  <2>5. \A p \in late' : LawfulPut(p)'
    <3> SUFFICES ASSUME NEW p \in late PROVE LawfulPut(p)'
      BY <2>3
    <3>1. LawfulPut(p) /\ p \in Put
      BY <1>0 DEF Lawful, TypeOK
    <3>2. CASE p \in [type : {"A"}, name : Name, value : Seen]
      BY <2>2, <3>1, <3>2 DEF LawfulPut
    <3>3. CASE p \in [type : {"PTR"}, name : ReverseNames, value : Name]
      BY <2>2, <3>1, <3>3 DEF LawfulPut
    <3> QED BY <3>1, <3>2, <3>3 DEF Put
  <2>6. \A s \in Sync : Target[at[s]] \in Name
    BY <1>0, TargetFacts DEF TypeOK
  <2> QED BY <1>0, <2>2, <2>3, <2>4, <2>5, <2>6 DEF Lawful
<1> QED BY <1>0, <1>1, <1>2, <1>3, <1>4, <1>5, <1>6, <1>7, <1>8, <1>9 DEF Next, Step

LEMMA LawInvariance == Spec => []LawInv
  BY InitLaw, StepLaw, PTL DEF Spec

\* Types: in particular every request on its way is one of the two PATCHes.
THEOREM TypeCorrect == Spec => []TypeOK
<1>1. LawInv => TypeOK
  BY DEF LawInv, TypeInv
<1> QED BY <1>1, LawInvariance, PTL

\* No A and no PTR record ever joins a VM's name and an SDN address that was
\* never leased to it; the addresses of other interfaces are not excluded
\* (sync_dns_to_sdn.py's _pdns_update_record, _reverse_name).
THEOREM RecordsAreNeverForeign == Spec => []NeverForeign
<1>1. LawInv => NeverForeign
  BY DEF LawInv, Lawful
<1> QED BY <1>1, LawInvariance, PTL

-----------------------------------------------------------------------------
(* What the exit code 0 says.                                              *)

RightAddress(n) == a[n] = lease[n]
Right(n) == RightAddress(n) /\ ptr[ReverseName(lease[n])] = n

\* The addresses leased differ.
Distinct == \A m, n \in Name : lease[m] = lease[n] => m = n

\* A run that nothing interferes with has got the records right as far as it is.
FarOK(s) ==
    /\ Running = {s}
    /\ pc[s] # "close" => \A i \in 1..Len(Target) : i < at[s] => Right(Target[i])
    /\ pc[s] \in {"A", "PTR"} => ip[s] = lease[Target[at[s]]]
    /\ pc[s] = "PTR" => RightAddress(Target[at[s]])
    /\ pc[s] = "close" /\ code[s] = 0 => Synced

CleanInv == LawInv /\ Distinct /\ \A s \in clean : FarOK(s)

\* Putting the right records of one VM keeps those of the others right: their
\* reverse names are different ones.
LEMMA ReplaceRight ==
  ASSUME TypeInv, Distinct, lease' = lease, NEW s \in Sync, NEW m, m = Target[at[s]],
         pc[s] \in {"A", "PTR"}, ip[s] = lease[m]
  PROVE  /\ Replace(AddressPut(s)) =>
               RightAddress(m)' /\ \A n \in Name : Right(n) => Right(n)'
         /\ Replace(ReversePut(s)) =>
               /\ RightAddress(m) => Right(m)'
               /\ \A n \in Name : Right(n) => Right(n)'
<1>0. m \in Name /\ TypeOK /\ \A n \in Name : lease[n] \in Addr
  BY TargetFacts DEF TypeInv, TypeOK
<1>1. /\ \A n \in Name : ReverseName(lease[n]) \in ReverseNames
      /\ \A n \in Name : lease[n] \in Seen
  BY <1>0 DEF ReverseNames, Seen
<1>2. ASSUME Replace(AddressPut(s))
      PROVE  RightAddress(m)' /\ \A n \in Name : Right(n) => Right(n)'
  <2>1. a' = [a EXCEPT ![m] = lease[m]] /\ ptr' = ptr
    BY <1>2 DEF Replace, AddressPut
  <2> QED BY <1>0, <2>1 DEF TypeOK, Right, RightAddress
<1>3. ASSUME Replace(ReversePut(s))
      PROVE  /\ RightAddress(m) => Right(m)'
             /\ \A n \in Name : Right(n) => Right(n)'
  <2>1. ptr' = [ptr EXCEPT ![ReverseName(lease[m])] = m] /\ a' = a
    BY <1>3 DEF Replace, ReversePut
  <2>2. ASSUME NEW n \in Name, n # m
        PROVE  ptr'[ReverseName(lease[n])] = ptr[ReverseName(lease[n])]
    <3>1. ReverseName(lease[n]) # ReverseName(lease[m])
      BY <1>0, <1>1, <2>2, ReverseNameInjective DEF Distinct
    <3> QED BY <1>0, <1>1, <2>1, <3>1 DEF TypeOK
  <2>3. ptr'[ReverseName(lease[m])] = m
    BY <1>0, <1>1, <2>1 DEF TypeOK
  <2> QED BY <2>1, <2>2, <2>3 DEF Right, RightAddress
<1> QED BY <1>2, <1>3

LEMMA InitClean == Init => CleanInv
  BY InitLaw DEF Init, CleanInv, Distinct

LEMMA StepClean ==
  ASSUME CleanInv, [Next]_vars
  PROVE  CleanInv'
<1> USE DEF records, counters
<1>0. /\ TypeInv /\ TypeOK /\ Distinct /\ LawInv' /\ TypeOK'
      /\ \A s \in clean : FarOK(s)
  BY StepLaw DEF CleanInv, LawInv, TypeInv
<1>c. clean \subseteq Sync /\ \A s \in clean : Running = {s} /\ pc[s] # "idle"
  BY <1>0 DEF TypeOK, FarOK, Running
<1> SUFFICES Distinct' /\ \A t \in clean' : FarOK(t)'
  BY <1>0 DEF CleanInv
<1>1. CASE UNCHANGED vars
  BY <1>0, <1>1 DEF vars, Distinct, FarOK, Running, Right, RightAddress, Synced
<1>2. ASSUME NEW s \in Sync, OpenTunnel(s) PROVE Distinct' /\ \A t \in clean' : FarOK(t)'
  <2>0. Distinct'
    BY <1>0, <1>2 DEF OpenTunnel, Distinct
  <2> SUFFICES ASSUME NEW t \in clean' PROVE FarOK(t)'
    BY <2>0
  <2>1. CASE clean' = {s} /\ Running = {} /\ Goto(s, "query")
    <3>1. t = s /\ at'[s] = 1 /\ pc'[s] = "query" /\ Running' = {s}
      BY <1>0, <1>2, <2>1 DEF OpenTunnel, Goto, Running, TypeOK
    <3> QED BY <3>1, TargetFacts DEF FarOK
  <2>2. CASE clean' = clean /\ UNCHANGED pc
    <3>1. t \in clean /\ t # s /\ pc'[t] = pc[t] /\ Running' = Running
      BY <1>2, <1>c, <2>2 DEF OpenTunnel, Running
    <3>2. at'[t] = at[t] /\ code'[t] = code[t]
      BY <1>0, <1>2, <1>c, <3>1 DEF OpenTunnel, TypeOK
    <3>3. UNCHANGED <<lease, a, ptr, ip>>
      BY <1>2 DEF OpenTunnel
    <3> QED BY <1>0, <3>1, <3>2, <3>3 DEF FarOK, Right, RightAddress, Synced
  <2> QED BY <1>2, <2>1, <2>2 DEF OpenTunnel
<1>3. ASSUME NEW s \in Sync, GetAddress(s) PROVE Distinct' /\ \A t \in clean' : FarOK(t)'
  <2>1. UNCHANGED <<lease, a, ptr, at>> /\ clean' \in {clean, clean \ {s}}
    BY <1>3 DEF GetAddress
  <2>2. /\ pc[s] = "query" /\ Running' = Running
        /\ \/ pc'[s] = "A" /\ ip'[s] = lease[Target[at[s]]]
           \/ clean' = clean \ {s}
           \/ pc'[s] = "close" /\ code'[s] \in {1, 4}
    BY <1>0, <1>3 DEF GetAddress, Leave, Goto, TypeOK, Running
  <2>3. ASSUME NEW t \in clean PROVE t = s
    BY <1>c, <2>2, <2>3 DEF Running
  <2> QED BY <1>0, <2>1, <2>2, <2>3 DEF Distinct, FarOK, Right, RightAddress
<1>4. ASSUME NEW s \in Sync, PutAddress(s) PROVE Distinct' /\ \A t \in clean' : FarOK(t)'
  <2>1. UNCHANGED <<lease, ip, clean, at>>
    BY <1>4, PutAddressSends DEF Sent
  <2>0. pc[s] = "A"
    BY <1>4 DEF PutAddress
  <2>2. /\ pc[s] = "A" /\ Running' = Running
        /\ \/ Replace(AddressPut(s)) /\ pc'[s] = "PTR"
           \/ pc'[s] = "close" /\ code'[s] \in {1, 5}
    BY <1>0, <1>4, <2>0, PutAddressSends DEF Leave, Goto, TypeOK, Running
  <2>3. ASSUME NEW t \in clean PROVE FarOK(t)'
    <3>1. t = s
      BY <1>c, <2>2 DEF Running
    <3>2. CASE pc'[s] = "close" /\ code'[s] \in {1, 5}
      BY <1>c, <2>2, <3>1, <3>2 DEF FarOK
    <3>3. CASE Replace(AddressPut(s)) /\ pc'[s] = "PTR"
      <4>0. PICK m : m = Target[at[s]]
        OBVIOUS
      <4>1. ip[s] = lease[m]
        BY <1>0, <2>2, <3>1, <4>0 DEF FarOK
      <4>2. RightAddress(m)' /\ \A n \in Name : Right(n) => Right(n)'
        BY <1>0, <2>1, <2>2, <3>3, <4>0, <4>1, ReplaceRight
      <4>3. \A i \in 1..Len(Target) : i < at[s] => Right(Target[i])'
        BY <1>0, <2>2, <3>1, <4>2, TargetFacts DEF FarOK
      <4> QED BY <1>c, <2>1, <2>2, <3>1, <3>3, <4>0, <4>1, <4>2, <4>3 DEF FarOK
    <3> QED BY <2>2, <3>2, <3>3
  <2> QED BY <1>0, <2>1, <2>3 DEF Distinct
<1>5. ASSUME NEW s \in Sync, PutReverse(s) PROVE Distinct' /\ \A t \in clean' : FarOK(t)'
  <2>1. UNCHANGED <<lease, ip, clean>>
    BY <1>5, PutReverseSends DEF Sent
  <2>0. pc[s] = "PTR"
    BY <1>5 DEF PutReverse
  <2>2. /\ pc[s] = "PTR" /\ Running' = Running
        /\ \/ /\ Replace(ReversePut(s)) /\ at[s] < Len(Target)
              /\ pc'[s] = "query" /\ at'[s] = at[s] + 1
           \/ Replace(ReversePut(s)) /\ ~(at[s] < Len(Target)) /\ pc'[s] = "close"
           \/ pc'[s] = "close" /\ code'[s] \in {1, 5}
    BY <1>0, <1>5, <2>0, PutReverseSends DEF Proceed, Leave, Goto, TypeOK, Running
  <2>3. ASSUME NEW t \in clean PROVE FarOK(t)'
    <3>1. t = s
      BY <1>c, <2>2 DEF Running
    <3>2. CASE pc'[s] = "close" /\ code'[s] \in {1, 5}
      BY <1>c, <2>2, <3>1, <3>2 DEF FarOK
    <3>3. CASE Replace(ReversePut(s))
      <4>0. PICK k \in 1..Len(Target) : k = at[s]
        BY <1>0, TargetFacts DEF TypeOK
      <4>1. ip[s] = lease[Target[k]] /\ RightAddress(Target[k])
        BY <1>0, <2>2, <3>1, <4>0 DEF FarOK
      <4>2. /\ RightAddress(Target[k]) => Right(Target[k])'
            /\ \A n \in Name : Right(n) => Right(n)'
        BY <1>0, <2>1, <2>2, <3>3, <4>0, <4>1, ReplaceRight
      <4>3. \A i \in 1..Len(Target) : i < k => Right(Target[i])
        BY <1>0, <2>2, <3>1, <4>0 DEF FarOK
      <4>4. \A i \in 1..Len(Target) : i < k \/ i = k => Right(Target[i])'
        BY <4>1, <4>2, <4>3, TargetFacts
      <4>5. Len(Target) \in Nat
        BY TargetFacts
      <4>6. CASE at[s] < Len(Target) /\ pc'[s] = "query" /\ at'[s] = at[s] + 1
        <5>1. \A i \in 1..Len(Target) : i < at'[s] => Right(Target[i])'
          BY <4>0, <4>4, <4>5, <4>6
        <5> QED BY <1>c, <2>2, <3>1, <4>6, <5>1 DEF FarOK
      <4>7. CASE ~(at[s] < Len(Target)) /\ pc'[s] = "close"
        <5>1. \A i \in 1..Len(Target) : Right(Target[i])'
          BY <4>0, <4>4, <4>5, <4>7
        <5>2. Synced'
          BY <5>1, TargetFacts DEF Synced, Right, RightAddress
        <5> QED BY <1>c, <2>2, <3>1, <4>7, <5>2 DEF FarOK
      <4> QED BY <2>2, <3>2, <4>6, <4>7
    <3> QED BY <2>2, <3>2, <3>3
  <2> QED BY <1>0, <2>1, <2>3 DEF Distinct
<1>6. ASSUME NEW s \in Sync, CloseTunnel(s) \/ Kill(s)
      PROVE  Distinct' /\ \A t \in clean' : FarOK(t)'
  <2>1. clean' = clean \ {s} /\ lease' = lease /\ pc[s] # "idle"
    BY <1>6 DEF CloseTunnel, Kill
  <2>2. clean' = {}
    BY <1>c, <2>1 DEF Running
  <2> QED BY <1>0, <2>1, <2>2 DEF Distinct
<1>7. CASE SshDies \/ Release
  BY <1>0, <1>7 DEF SshDies, Release, Distinct, FarOK, Running, Right, RightAddress, Synced
<1>8. CASE Land
  BY <1>0, <1>8 DEF Land, Distinct
<1>9. ASSUME NEW n \in Name, Renew(n) PROVE Distinct' /\ \A t \in clean' : FarOK(t)'
  <2>1. PICK x \in Addr \ {lease[m] : m \in Name} : lease' = [lease EXCEPT ![n] = x]
    BY <1>9 DEF Renew
  <2>2. Distinct'
    BY <1>0, <2>1 DEF Distinct, TypeOK
  <2> QED BY <1>9, <2>2 DEF Renew
<1> QED BY <1>0, <1>1, <1>2, <1>3, <1>4, <1>5, <1>6, <1>7, <1>8, <1>9 DEF Next, Step

\* A run of the script that exits with 0, that nothing interferes with and that
\* is told leased addresses leaves both records of every VM as Synced has them:
\* the PTR under the name _reverse_name makes (main's return code).
THEOREM ZeroMeansSynced == Spec => []OkMeansSynced
<1>1. CleanInv => OkMeansSynced
  BY DEF CleanInv, FarOK, OkMeansSynced
<1> QED BY <1>1, InitClean, StepClean, PTL DEF Spec

=============================================================================
