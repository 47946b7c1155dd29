--------------------------- MODULE BulletinProofs ---------------------------
(***************************************************************************)
(* What Bulletin guarantees for any number of sessions and requests.       *)
(* The active role of a principal may be changed by any request of its     *)
(* session, but only to a role of the account: whoever is found to be the  *)
(* active sponsor is the account's own, or nobody.  The role a request set *)
(* in the principal it holds outlives the renewal of the session.          *)
(***************************************************************************)
EXTENDS Bulletin, TransactionsProofs, SequenceTheorems

Own(t) == SponsorOf[SessionOf[t]]

\* What thread t may do to a row: a banner that is there is its own sponsor's,
\* a sponsor is itself, and sponsors stay.
LawfulChange(t, i, was, new) ==
    /\ was \in RowOf(i) /\ new \in RowOf(i)
    /\ was # Gone /\ new # Unborn
    /\ Raises(was, new)
    /\ i \in Banners /\ Live(was) => was.sponsor # NoSponsor /\ was.sponsor = Own(t)
    /\ i \in Sponsors => i = Own(t) /\ Live(new)

LawfulWork(t, w) ==
    \A i \in DOMAIN w : i \in Ids /\ LawfulChange(t, i, w[i].old, w[i].new)

PendingLawful == \A t \in Threads : LawfulWork(t, tx[t])

\* No two transactions insert a row of the same id.
Inserts(t, i) == i \in DOMAIN tx[t] /\ tx[t][i].old = Unborn
InsertsDiffer == \A t, u \in Threads : \A i \in Ids : Inserts(t, i) /\ Inserts(u, i) => t = u

\* A request that is alone with its sponsor finds the active role it has set, and
\* the card it has seen.
Undisturbed(t) ==
    /\ desk[t].at \in Roles =>
           ActiveRole(t) = desk[t].at /\ desk[t].at \in RolesOf[SessionOf[t]]
    /\ desk[t].at = "made" =>
           /\ ActiveRole(t) = "Sponsor"
           /\ desk[t].sponsor = Own(t) /\ Own(t) \in Sponsors
    /\ \A b \in Banners : Inserts(t, b) =>
           /\ tx[t][b].new.sponsor = Own(t) /\ Own(t) \in Sponsors
           /\ b \in Commercials => db[Own(t)].card

AloneUndisturbed == \A t \in Threads : Alone(t) => Undisturbed(t)

\* Principals and requests, typed.
Desks == [at : Roles \cup {"away", "made", "due"}, principal : Nat,
          sponsor : Sponsors \cup {NoSponsor}]

Held(t) == desk[t] = Away \/ desk[t].principal \in 1 .. Current(SessionOf[t])

Screens ==
    /\ active \in [Sessions -> Seq(Roles) \ {<<>>}]
    /\ desk \in [Threads -> Desks]
    /\ \A t \in Threads : Held(t)

IInv == TypeOK /\ PendingLawful /\ OptimisticReads /\ InsertsDiffer /\ AloneUndisturbed

-----------------------------------------------------------------------------
(* Rows *)

LEMMA RowKinds ==
    /\ \A i \in Notices \cup {Configuration} : RowOf(i) = {Unborn, Gone} \cup NoticeRow
    /\ \A i \in Banners : RowOf(i) = {Unborn, Gone} \cup BannerRow
    /\ \A i \in Sponsors : RowOf(i) = {Unborn, Gone} \cup SponsorRow
BY IdsDisjoint DEF RowOf, Banners

LEMMA LiveRows ==
    \A row \in NoticeRow \cup BannerRow \cup SponsorRow :
        Live(row) /\ row.version \in Nat /\ row # Unborn /\ row # Gone
BY BlankRows DEF Live, NoticeRow, BannerRow, SponsorRow

LEMMA BumpedRows ==
    /\ \A row \in NoticeRow : Bump(row) \in NoticeRow /\ Bump(row).version = row.version + 1
    /\ \A row \in BannerRow :
          /\ Bump(row) \in BannerRow
          /\ Bump(row).version = row.version + 1 /\ Bump(row).sponsor = row.sponsor
    /\ \A row \in SponsorRow : \A card \in BOOLEAN :
          /\ [Bump(row) EXCEPT !.card = card] \in SponsorRow
          /\ [Bump(row) EXCEPT !.card = card].version = row.version + 1
<1>1. \A row \in NoticeRow : Bump(row) \in NoticeRow /\ Bump(row).version = row.version + 1
  BY DEF Bump, NoticeRow
<1>2. \A row \in BannerRow :
        /\ Bump(row) \in BannerRow
        /\ Bump(row).version = row.version + 1 /\ Bump(row).sponsor = row.sponsor
  BY DEF Bump, BannerRow
<1>3. ASSUME NEW row \in SponsorRow, NEW card \in BOOLEAN
      PROVE  /\ [Bump(row) EXCEPT !.card = card] \in SponsorRow
             /\ [Bump(row) EXCEPT !.card = card].version = row.version + 1
  <2>1. Bump(row) \in SponsorRow /\ Bump(row).version = row.version + 1
    BY DEF Bump, SponsorRow
  <2>2. ASSUME NEW r \in SponsorRow
        PROVE  [r EXCEPT !.card = card] \in SponsorRow /\ [r EXCEPT !.card = card].version = r.version
    BY DEF SponsorRow
  <2>3. QED
    BY <2>1, <2>2
<1>4. QED
  BY <1>1, <1>2, <1>3

LEMMA TypedTables ==
    ASSUME TypeOK PROVE Tables /\ AllVersioned
<1>1. Tables
  BY DEF TypeOK, Tables
<1>2. \A i \in Ids : \A row \in RowOf(i) : Versioned(row)
  BY RowKinds, LiveRows, IdsAre DEF Versioned
<1>3. AllVersioned
  BY <1>2 DEF TypeOK, AllVersioned
<1>4. QED
  BY <1>1, <1>3

LEMMA CommittedRows ==
    ASSUME TypeOK
    PROVE  /\ \A i \in Notices \cup {Configuration} : Live(db[i]) => db[i] \in NoticeRow
           /\ \A i \in Banners : Live(db[i]) => db[i] \in BannerRow
           /\ \A i \in Sponsors : Live(db[i]) => db[i] \in SponsorRow
<1>1. \A i \in Ids : db[i] \in RowOf(i)
  BY DEF TypeOK
<1>2. QED
  BY <1>1, RowKinds, BlankRows, IdsAre

LEMMA TypedScreens ==
    /\ TypeOK => Screens
    /\ Away \in Desks /\ Away.at \notin Roles \cup {"made"}
BY DEF TypeOK, Screens, Held, Desks, Away, Roles

\* A request that comes in, and a renewal, keep the principals that are held.
LEMMA MoreRoles ==
    ASSUME NEW s \in Seq(Roles) \ {<<>>}, NEW role \in Roles
    PROVE  /\ Len(s) \in 1 .. Len(s)
           /\ [s EXCEPT ![Len(s)] = role] \in Seq(Roles) \ {<<>>}
           /\ Len([s EXCEPT ![Len(s)] = role]) = Len(s)
           /\ [s EXCEPT ![Len(s)] = role][Len(s)] = role
           /\ Append(s, role) \in Seq(Roles) \ {<<>>}
           /\ Len(Append(s, role)) = Len(s) + 1
<1>1. Len(s) \in Nat /\ Len(s) # 0
  BY EmptySeq
<1>2. Len(s) \in 1 .. Len(s)
  BY <1>1
<1>3. /\ [s EXCEPT ![Len(s)] = role] \in Seq(Roles)
      /\ Len([s EXCEPT ![Len(s)] = role]) = Len(s)
      /\ [s EXCEPT ![Len(s)] = role][Len(s)] = role
  BY <1>2, ExceptSeq
<1>4. Append(s, role) \in Seq(Roles) /\ Len(Append(s, role)) = Len(s) + 1
  BY AppendProperties
<1>5. QED
  BY <1>1, <1>2, <1>3, <1>4, EmptySeq

\* The active sponsor of a request, if any, is its account's.
LEMMA ActiveIsOwn ==
    ASSUME NEW t \in Threads, ActiveSponsor(t) # NoSponsor
    PROVE  ActiveSponsor(t) = Own(t)
BY DEF ActiveSponsor, Own

-----------------------------------------------------------------------------
(* Service steps *)

LEMMA InsertIsLawful ==
    ASSUME NEW t \in Threads, NEW i \in Ids, i \notin Sponsors, FreshId(i),
           NEW row \in RowOf(i), Live(row)
    PROVE  LawfulWork(t, Write(i, row)) /\ ReadHere(Write(i, row))
<1>1. db[i] = Unborn
  BY DEF FreshId
<1>2. LawfulChange(t, i, Unborn, row)
  BY BlankRows DEF LawfulChange, RowOf, Raises
<1>3. QED
  BY <1>1, <1>2 DEF LawfulWork, ReadHere, Write

LEMMA UpdateIsLawful ==
    ASSUME TypeOK, NEW t \in Threads, NEW i \in Ids, NEW row \in RowOf(i), Live(db[i]), Live(row),
           row.version = db[i].version + 1,
           i \in Banners => db[i].sponsor # NoSponsor /\ db[i].sponsor = Own(t),
           i \in Sponsors => i = Own(t)
    PROVE  LawfulWork(t, Write(i, row)) /\ ReadHere(Write(i, row))
<1>1. db[i] \in RowOf(i) /\ db[i] # Gone /\ row # Unborn
  BY BlankRows DEF TypeOK
<1>2. db[i].version \in Nat
  BY <1>1, TypedTables, BlankRows DEF AllVersioned, Versioned
<1>3. Raises(db[i], row)
  BY <1>2 DEF Raises
<1>4. LawfulChange(t, i, db[i], row)
  BY <1>1, <1>3 DEF LawfulChange
<1>5. QED
  BY <1>4 DEF LawfulWork, ReadHere, Write

LEMMA DeleteIsLawful ==
    ASSUME TypeOK, NEW t \in Threads, NEW i \in Ids, i \notin Sponsors, Live(db[i]),
           i \in Banners => db[i].sponsor # NoSponsor /\ db[i].sponsor = Own(t)
    PROVE  LawfulWork(t, DeleteAll({i})) /\ ReadHere(DeleteAll({i}))
<1>1. db[i] \in RowOf(i) /\ db[i] # Gone
  BY BlankRows DEF TypeOK
<1>2. LawfulChange(t, i, db[i], Gone)
  BY <1>1, BlankRows DEF LawfulChange, RowOf, Raises
<1>3. QED
  BY <1>2 DEF LawfulWork, ReadHere, DeleteAll

\* Only fresh ids are inserted, and banners as instantiate has made them.
Careful(t, w) ==
    \A i \in DOMAIN w : w[i].old = Unborn =>
        /\ FreshId(i)
        /\ i \in Banners =>
              /\ desk[t].at = "made" /\ w[i].new.sponsor = desk[t].sponsor
              /\ i \in Commercials =>
                    ActiveSponsor(t) # NoSponsor /\ db[ActiveSponsor(t)].card

Safe(t, w) == LawfulWork(t, w) /\ ReadHere(w) /\ Careful(t, w)

LEMMA NewRows ==
    /\ NewNotice \in NoticeRow
    /\ \A sponsor \in Sponsors \cup {NoSponsor} :
          NewBanner(sponsor) \in BannerRow /\ NewBanner(sponsor).sponsor = sponsor
BY DEF NewNotice, NewBanner, NoticeRow, BannerRow

LEMMA NoticesAreSafe ==
    ASSUME TypeOK, NEW t \in Threads, Administrator(t)
    PROVE  \E w : Serve(t, w) /\ Safe(t, w)
<1>1. CASE NoticeCreate(t)
  <2>1. PICK i \in Notices : FreshId(i) /\ Serve(t, Write(i, NewNotice))
    BY <1>1 DEF NoticeCreate
  <2>2. i \in Ids /\ i \notin Sponsors /\ i \notin Banners
    BY IdsAre, IdsDisjoint
  <2>3. NewNotice \in RowOf(i) /\ Live(NewNotice)
    BY NewRows, RowKinds, LiveRows
  <2>4. LawfulWork(t, Write(i, NewNotice)) /\ ReadHere(Write(i, NewNotice))
    BY <2>1, <2>2, <2>3, InsertIsLawful
  <2>5. Careful(t, Write(i, NewNotice))
    BY <2>1, <2>2 DEF Careful, Write
  <2>6. QED
    BY <2>1, <2>4, <2>5 DEF Safe
<1>2. CASE NoticeUpdate(t)
  <2>1. PICK i \in Notices \cup {Configuration} : Live(db[i]) /\ Serve(t, Write(i, Bump(db[i])))
    BY <1>2 DEF NoticeUpdate, Editable
  <2>2. i \in Ids /\ i \notin Sponsors /\ i \notin Banners
    BY IdsAre, IdsDisjoint
  <2>3. Bump(db[i]) \in NoticeRow /\ Bump(db[i]).version = db[i].version + 1
    BY <2>1, CommittedRows, BumpedRows
  <2>4. Bump(db[i]) \in RowOf(i) /\ Live(Bump(db[i]))
    BY <2>3, RowKinds, LiveRows
  <2>5. LawfulWork(t, Write(i, Bump(db[i]))) /\ ReadHere(Write(i, Bump(db[i])))
    BY <2>1, <2>2, <2>3, <2>4, UpdateIsLawful
  <2>6. Careful(t, Write(i, Bump(db[i])))
    BY <2>1, <2>2, BlankRows DEF Careful, Write
  <2>7. QED
    BY <2>1, <2>5, <2>6 DEF Safe
<1>3. CASE NoticeDelete(t)
  <2>1. PICK i \in Notices : Live(db[i]) /\ Serve(t, DeleteAll({i}))
    BY <1>3 DEF NoticeDelete
  <2>2. i \in Ids /\ i \notin Sponsors /\ i \notin Banners
    BY IdsAre, IdsDisjoint
  <2>3. LawfulWork(t, DeleteAll({i})) /\ ReadHere(DeleteAll({i}))
    BY <2>1, <2>2, DeleteIsLawful
  <2>4. Careful(t, DeleteAll({i}))
    BY <2>1, BlankRows DEF Careful, DeleteAll
  <2>5. QED
    BY <2>1, <2>3, <2>4 DEF Safe
<1>4. QED
  BY <1>1, <1>2, <1>3 DEF Administrator

LEMMA BannersAreSafe ==
    ASSUME TypeOK, NEW t \in Threads, CommercialCreate(t) \/ NonCommercialCreate(t)
    PROVE  \E w : Serve(t, w) /\ Safe(t, w)
<1> DEFINE row == NewBanner(desk[t].sponsor)
<1>1. PICK b \in Banners :
        /\ desk[t].at = "made" /\ FreshId(b) /\ Serve(t, Write(b, row))
        /\ b \in Commercials => ActiveSponsor(t) # NoSponsor /\ db[ActiveSponsor(t)].card
  BY IdsDisjoint DEF CommercialCreate, NonCommercialCreate, Banners
<1>2. b \in Ids /\ b \notin Sponsors
  BY IdsAre, IdsDisjoint
<1>3. row \in BannerRow /\ row.sponsor = desk[t].sponsor
  BY NewRows DEF TypeOK
<1> HIDE DEF row
<1>4. row \in RowOf(b) /\ Live(row)
  BY <1>3, RowKinds, LiveRows
<1>5. LawfulWork(t, Write(b, row)) /\ ReadHere(Write(b, row))
  BY <1>1, <1>2, <1>4, InsertIsLawful
<1>6. Careful(t, Write(b, row))
  BY <1>1, <1>3 DEF Careful, Write
<1>7. QED
  BY <1>1, <1>5, <1>6 DEF Safe, row

LEMMA EditsAreSafe ==
    ASSUME TypeOK, NEW t \in Threads, SponsorUpdate(t) \/ BannerUpdate(t) \/ BannerDelete(t)
    PROVE  \E w : Serve(t, w) /\ Safe(t, w)
<1>1. CASE SponsorUpdate(t)
  <2> DEFINE s == Own(t)
  <2>1. PICK card \in BOOLEAN :
          Live(db[s]) /\ s # NoSponsor /\ Serve(t, Write(s, [Bump(db[s]) EXCEPT !.card = card]))
    BY <1>1 DEF SponsorUpdate, Own, Editable
  <2> DEFINE row == [Bump(db[s]) EXCEPT !.card = card]
  <2>2. s \in Sponsors /\ s \in Ids /\ s \notin Banners
    BY <2>1, SessionsTyped, IdsAre, IdsDisjoint DEF Own
  <2>3. row \in SponsorRow /\ row.version = db[s].version + 1
    BY <2>1, <2>2, CommittedRows, BumpedRows
  <2>4. Serve(t, Write(s, row)) /\ s = Own(t)
    BY <2>1
  <2> HIDE DEF row, s
  <2>5. row \in RowOf(s) /\ Live(row)
    BY <2>2, <2>3, RowKinds, LiveRows
  <2>6. LawfulWork(t, Write(s, row)) /\ ReadHere(Write(s, row))
    BY <2>1, <2>2, <2>3, <2>4, <2>5, UpdateIsLawful
  <2>7. Careful(t, Write(s, row))
    BY <2>1, BlankRows DEF Careful, Write
  <2>8. QED
    BY <2>4, <2>6, <2>7 DEF Safe
<1>2. ASSUME NEW b \in Banners, IsCreator(t, b)
      PROVE  /\ b \in Ids /\ b \notin Sponsors /\ Live(db[b])
             /\ db[b].sponsor # NoSponsor /\ db[b].sponsor = Own(t)
  BY <1>2, ActiveIsOwn, IdsAre, IdsDisjoint DEF IsCreator
<1>3. CASE BannerUpdate(t)
  <2>1. PICK b \in Banners : IsCreator(t, b) /\ Serve(t, Write(b, Bump(db[b])))
    BY <1>3 DEF BannerUpdate
  <2>2. Bump(db[b]) \in BannerRow /\ Bump(db[b]).version = db[b].version + 1
    BY <1>2, <2>1, CommittedRows, BumpedRows
  <2>3. Bump(db[b]) \in RowOf(b) /\ Live(Bump(db[b]))
    BY <2>2, RowKinds, LiveRows
  <2>4. LawfulWork(t, Write(b, Bump(db[b]))) /\ ReadHere(Write(b, Bump(db[b])))
    BY <1>2, <2>1, <2>2, <2>3, UpdateIsLawful
  <2>5. Careful(t, Write(b, Bump(db[b])))
    BY <1>2, <2>1, BlankRows DEF Careful, Write
  <2>6. QED
    BY <2>1, <2>4, <2>5 DEF Safe
<1>4. CASE BannerDelete(t)
  <2>1. PICK b \in Banners : IsCreator(t, b) /\ Serve(t, DeleteAll({b}))
    BY <1>4 DEF BannerDelete
  <2>2. LawfulWork(t, DeleteAll({b})) /\ ReadHere(DeleteAll({b}))
    BY <1>2, <2>1, DeleteIsLawful
  <2>3. Careful(t, DeleteAll({b}))
    BY <1>2, <2>1, BlankRows DEF Careful, DeleteAll
  <2>4. QED
    BY <2>1, <2>2, <2>3 DEF Safe
<1>5. QED
  BY <1>1, <1>3, <1>4

-----------------------------------------------------------------------------
(* The inductive invariant *)

\* Where desk and active stay or move lawfully, and tx[u] and the card stay,
\* a request stays undisturbed.
LEMMA StaysUndisturbed ==
    ASSUME NEW u \in Threads, Undisturbed(u),
           \/ desk'[u].at \notin Roles \cup {"made"}
           \/ desk'[u] = desk[u] /\ active'[SessionOf[u]] = active[SessionOf[u]],
           tx'[u] = tx[u] \/ tx'[u] = NoWork,
           db'[Own(u)] = db[Own(u)] \/ tx'[u] = NoWork
    PROVE  Undisturbed(u)'
<1>1. Own(u)' = Own(u)
  BY DEF Own
<1>2. desk'[u] = desk[u] /\ active'[SessionOf[u]] = active[SessionOf[u]] =>
          ActiveRole(u)' = ActiveRole(u)
  BY DEF ActiveRole
<1>3. /\ desk'[u].at \in Roles =>
            ActiveRole(u)' = desk'[u].at /\ desk'[u].at \in RolesOf[SessionOf[u]]
      /\ desk'[u].at = "made" =>
            /\ ActiveRole(u)' = "Sponsor"
            /\ desk'[u].sponsor = Own(u) /\ Own(u) \in Sponsors
  BY <1>2 DEF Undisturbed
<1>4. CASE tx'[u] = NoWork
  <2>1. \A b \in Banners : ~Inserts(u, b)'
    BY <1>4 DEF Inserts, NoWork
  <2>2. QED
    BY <1>1, <1>3, <2>1 DEF Undisturbed
<1>5. CASE tx'[u] = tx[u] /\ db'[Own(u)] = db[Own(u)]
  <2>1. \A b \in Banners : Inserts(u, b)' = Inserts(u, b)
    BY <1>5 DEF Inserts
  <2>2. \A b \in Banners : Inserts(u, b) =>
           /\ tx'[u][b].new.sponsor = Own(u) /\ Own(u) \in Sponsors
           /\ b \in Commercials => db'[Own(u)].card
    BY <1>5 DEF Undisturbed
  <2>3. QED
    BY <1>1, <1>3, <2>1, <2>2 DEF Undisturbed
<1>6. QED
  BY <1>4, <1>5

\* Two requests of one session are not alone.
LEMMA AloneInSession ==
    ASSUME NEW t \in Threads, NEW u \in Threads, Alone(u), t # u
    PROVE  SessionOf[t] # SessionOf[u] /\ Own(t) # Own(u)
BY DEF Alone, Own

LEMMA InitInv == Init => IInv
<1> SUFFICES ASSUME Init PROVE IInv
  OBVIOUS
<1>1. PICK card \in [Sponsors -> BOOLEAN] :
        db = [i \in Ids |->
                CASE i = Configuration -> NewNotice
                  [] i \in Sponsors -> [st |-> "live", version |-> 0, card |-> card[i]]
                  [] OTHER -> Unborn]
  BY DEF Init
<1>2. tx = [t \in Threads |-> NoWork] /\ \A t \in Threads : DOMAIN tx[t] = {}
  BY DEF Init, NoWork
<1>3. ASSUME NEW i \in Ids PROVE db[i] \in RowOf(i)
  <2>1. CASE i = Configuration
    BY <1>1, <2>1, NewRows, RowKinds, IdsDisjoint
  <2>2. CASE i \in Sponsors
    <3>1. db[i] = [st |-> "live", version |-> 0, card |-> card[i]]
      BY <1>1, <2>2, IdsDisjoint
    <3>2. db[i] \in SponsorRow
      BY <3>1, <2>2 DEF SponsorRow
    <3>3. QED
      BY <3>2, <2>2, RowKinds
  <2>3. CASE i # Configuration /\ i \notin Sponsors
    BY <1>1, <2>3 DEF RowOf
  <2>4. QED
    BY <2>1, <2>2, <2>3
<1>4. Screens /\ \A t \in Threads : desk[t].at = "away"
  <2>1. /\ active = [s \in Sessions |-> <<"Authenticated">>] /\ desk = [t \in Threads |-> Away]
        /\ Away.at = "away"
    BY DEF Init, Away
  <2>2. <<"Authenticated">> \in Seq(Roles) \ {<<>>}
    BY DEF Roles
  <2>3. QED
    BY <2>1, <2>2, TypedScreens DEF Screens, Held
<1>5. db = [i \in Ids |-> db[i]]
  BY <1>1
<1>6. TypeOK
  BY <1>2, <1>3, <1>4, <1>5 DEF TypeOK, Screens, Held, Desks
<1>7. PendingLawful /\ OptimisticReads /\ InsertsDiffer
  BY <1>2 DEF PendingLawful, LawfulWork, OptimisticReads, InsertsDiffer, Inserts
<1>8. AloneUndisturbed
  <2>1. \A t \in Threads : desk[t].at \notin Roles \cup {"made"}
    BY <1>4 DEF Roles
  <2>2. QED
    BY <1>2, <2>1 DEF AloneUndisturbed, Undisturbed, Inserts
<1>9. QED
  BY <1>6, <1>7, <1>8 DEF IInv

LEMMA ServeInv ==
    ASSUME IInv, NEW t \in Threads, NEW w, Serve(t, w), Safe(t, w)
    PROVE  IInv'
<1>1. /\ db' = db /\ active' = active /\ desk' = desk
      /\ tx' = [u \in Threads |-> tx'[u]]
      /\ \A u \in Threads : tx'[u] = IF u = t THEN w ELSE tx[u]
  BY DEF Serve, Hold, IInv, TypeOK
<1>2. \A i \in DOMAIN w : i \in Ids /\ w[i].old \in RowOf(i) /\ w[i].new \in RowOf(i)
  BY DEF Safe, LawfulWork, LawfulChange
<1>3. TypeOK'
  BY <1>1, <1>2 DEF IInv, TypeOK, RowOf, Current
<1>4. PendingLawful'
  <2>1. \A u \in Threads : LawfulWork(u, tx'[u])
    BY <1>1 DEF IInv, PendingLawful, Safe
  <2>2. QED
    BY <2>1 DEF PendingLawful, LawfulWork, LawfulChange, RowOf, Own
<1>5. OptimisticReads'
  BY HoldKeepsReads, TypedTables DEF IInv, Serve, Safe
<1>6. InsertsDiffer'
  <2> SUFFICES ASSUME NEW u \in Threads, NEW v \in Threads, NEW i \in Ids, Inserts(u, i)', Inserts(v, i)'
               PROVE  u = v
    BY DEF InsertsDiffer
  <2>1. Inserts(t, i)' => FreshId(i)
    BY <1>1 DEF Safe, Careful, Inserts
  <2>2. \A x \in Threads : x # t => (Inserts(x, i)' = Inserts(x, i))
    BY <1>1 DEF Inserts
  <2>3. QED
    BY <2>1, <2>2 DEF IInv, InsertsDiffer, Inserts, FreshId
<1>7. ASSUME NEW u \in Threads, Alone(u)' PROVE Undisturbed(u)'
  <2>1. Alone(u) /\ Undisturbed(u)
    BY <1>7 DEF Alone, IInv, AloneUndisturbed
  <2>2. CASE u # t
    BY <1>1, <2>1, <2>2, StaysUndisturbed
  <2>3. CASE u = t
    <3>1. ASSUME NEW b \in Banners, Inserts(t, b)'
          PROVE  /\ tx'[t][b].new.sponsor = Own(t) /\ Own(t) \in Sponsors
                 /\ b \in Commercials => db'[Own(t)].card
      <4>1. b \in DOMAIN w /\ w[b].old = Unborn /\ tx'[t][b].new = w[b].new
        BY <1>1, <3>1 DEF Inserts
      <4>2. /\ desk[t].at = "made" /\ w[b].new.sponsor = desk[t].sponsor
            /\ b \in Commercials => ActiveSponsor(t) # NoSponsor /\ db[ActiveSponsor(t)].card
        BY <4>1 DEF Safe, Careful
      <4>3. desk[t].sponsor = Own(t) /\ Own(t) \in Sponsors
        BY <2>1, <2>3, <4>2 DEF Undisturbed
      <4>4. QED
        BY <1>1, <4>1, <4>2, <4>3, ActiveIsOwn
    <3>2. Own(t)' = Own(t)
      BY DEF Own
    <3>3. ActiveRole(t)' = ActiveRole(t)
      BY <1>1 DEF ActiveRole
    <3>4. QED
      BY <1>1, <2>1, <2>3, <3>1, <3>2, <3>3 DEF Undisturbed
  <2>4. QED
    BY <2>2, <2>3
<1>8. QED
  BY <1>3, <1>4, <1>5, <1>6, <1>7 DEF IInv, AloneUndisturbed

\* A flush replaces rows as they were read.
LEMMA FlushedRows ==
    ASSUME IInv, NEW t \in Threads, Flush(t)
    PROVE  /\ \A i \in Ids : IF i \in DOMAIN tx[t]
                             THEN /\ db'[i] = tx[t][i].new /\ db[i] = tx[t][i].old
                                  /\ LawfulChange(t, i, db[i], db'[i])
                             ELSE db'[i] = db[i]
           /\ DOMAIN tx[t] \subseteq Ids
           /\ db' = [i \in Ids |-> db'[i]]
<1>1. Tables /\ AllVersioned /\ OptimisticReads
  BY TypedTables DEF IInv
<1>2. \A i \in DOMAIN tx[t] : db[i] = tx[t][i].old
  BY <1>1, UnstaleIsUnchanged DEF Flush
<1>3. QED
  BY <1>1, <1>2 DEF Flush, After, IInv, PendingLawful, LawfulWork, Tables

LEMMA CommitInv ==
    ASSUME IInv, NEW t \in Threads, Commit(t)
    PROVE  IInv'
<1>1. /\ Flush(t) /\ active' = active
      /\ tx' = [u \in Threads |-> tx'[u]]
      /\ \A u \in Threads : tx'[u] = IF u = t THEN NoWork ELSE tx[u]
      /\ \A u \in Threads : u # t => desk'[u] = desk[u]
      /\ desk'[t] \in {Away, [desk[t] EXCEPT !.at = "due"]}
  BY DEF Commit, Flush, IInv, TypeOK
<1>2. TypeOK'
  <2>1. \A i \in Ids : db'[i] \in RowOf(i)
    BY <1>1, FlushedRows DEF IInv, TypeOK, LawfulChange
  <2>2. \A u \in Threads : \A i \in DOMAIN tx'[u] :
           i \in Ids /\ tx'[u][i].old \in RowOf(i) /\ tx'[u][i].new \in RowOf(i)
    BY <1>1 DEF NoWork, IInv, TypeOK
  <2>3. db' = [i \in Ids |-> db'[i]]
    BY <1>1, FlushedRows
  <2>4. Screens'
    <3>1. Screens
      BY TypedScreens DEF IInv
    <3>2. [desk[t] EXCEPT !.at = "due"] \in Desks
      BY <3>1 DEF Screens, Desks
    <3>3. /\ desk'[t] \in Desks
          /\ \/ desk'[t] = Away
             \/ desk[t] # Away /\ desk'[t].principal = desk[t].principal
      BY <1>1, <3>1, <3>2, TypedScreens DEF Screens, Desks, Commit, Away
    <3>4. desk' = [u \in Threads |-> desk'[u]]
      BY <3>1 DEF Commit, Screens
    <3>5. desk' \in [Threads -> Desks]
      BY <1>1, <3>1, <3>3, <3>4 DEF Screens
    <3>6. \A u \in Threads : Held(u)'
      BY <1>1, <3>1, <3>3 DEF Screens, Held, Current
    <3>7. QED
      BY <1>1, <3>1, <3>5, <3>6 DEF Screens, Desks
  <2>5. QED
    BY <1>1, <2>1, <2>2, <2>3, <2>4 DEF TypeOK, RowOf, Screens, Held, Desks
<1>3. PendingLawful'
  <2>1. \A u \in Threads : LawfulWork(u, tx'[u])
    BY <1>1 DEF NoWork, IInv, PendingLawful, LawfulWork
  <2>2. QED
    BY <2>1 DEF PendingLawful, LawfulWork, LawfulChange, RowOf, Own
<1>4. OptimisticReads'
  <2>1. \A i \in Ids : \A row \in RowOf(i) : Versioned(row)
    BY RowKinds, LiveRows, IdsAre DEF Versioned
  <2>2. \A i \in DOMAIN tx[t] : Versioned(tx[t][i].new) /\ Raises(tx[t][i].old, tx[t][i].new)
    BY <2>1 DEF IInv, PendingLawful, LawfulWork, LawfulChange
  <2>3. QED
    BY <1>1, <2>2, FlushKeepsReads, TypedTables DEF IInv
<1>5. InsertsDiffer'
  BY <1>1 DEF IInv, InsertsDiffer, Inserts, NoWork
<1>6. ASSUME NEW u \in Threads, Alone(u)' PROVE Undisturbed(u)'
  <2>1. Alone(u) /\ Undisturbed(u)
    BY <1>6 DEF Alone, IInv, AloneUndisturbed
  <2>2. CASE u = t
    <3>1. desk'[t].at \notin Roles \cup {"made"}
      BY <1>1, TypedScreens DEF IInv, Screens, Desks, Roles
    <3>2. QED
      BY <1>1, <2>1, <2>2, <3>1, StaysUndisturbed
  <2>3. CASE u # t
    <3>1. CASE Own(u) \in Sponsors
      <4>1. Own(u) \notin DOMAIN tx[t]
        BY <2>1, <2>3, <3>1, AloneInSession DEF IInv, PendingLawful, LawfulWork, LawfulChange
      <4>2. db'[Own(u)] = db[Own(u)]
        BY <1>1, <3>1, <4>1, FlushedRows, IdsAre
      <4>3. QED
        BY <1>1, <2>1, <2>3, <4>2, StaysUndisturbed
    <3>2. CASE Own(u) \notin Sponsors
      <4>1. \A b \in Banners : ~Inserts(u, b)'
        BY <1>1, <2>1, <2>3, <3>2 DEF Undisturbed, Inserts
      <4>2. QED
        BY <1>1, <2>1, <2>3, <3>2, <4>1 DEF Undisturbed, Own, ActiveRole
    <3>3. QED
      BY <3>1, <3>2
  <2>4. QED
    BY <2>2, <2>3
<1>7. QED
  BY <1>2, <1>3, <1>4, <1>5, <1>6 DEF IInv, AloneUndisturbed

\* The steps that leave the rows alone.
LEMMA QuietInv ==
    ASSUME IInv, NEW t \in Threads, db' = db,
           tx' = tx \/ tx' = [tx EXCEPT ![t] = NoWork],
           Screens',
           \A u \in Threads : Alone(u) => Undisturbed(u)'
    PROVE  IInv'
<1>1. /\ tx' = [u \in Threads |-> tx'[u]]
      /\ \A u \in Threads : tx'[u] = tx[u] \/ tx'[u] = NoWork
  BY DEF IInv, TypeOK
<1>2. TypeOK'
  <2>1. \A u \in Threads : \A i \in DOMAIN tx'[u] :
           i \in Ids /\ tx'[u][i].old \in RowOf(i) /\ tx'[u][i].new \in RowOf(i)
    BY <1>1 DEF NoWork, IInv, TypeOK
  <2>2. db' = [i \in Ids |-> db'[i]] /\ \A i \in Ids : db'[i] \in RowOf(i)
    BY DEF IInv, TypeOK
  <2>3. QED
    BY <1>1, <2>1, <2>2 DEF TypeOK, RowOf, Screens, Held, Desks
<1>3. PendingLawful'
  <2>1. \A u \in Threads : LawfulWork(u, tx'[u])
    BY <1>1 DEF NoWork, IInv, PendingLawful, LawfulWork
  <2>2. QED
    BY <2>1 DEF PendingLawful, LawfulWork, LawfulChange, RowOf, Own
<1>4. OptimisticReads'
  BY <1>1 DEF IInv, OptimisticReads, NoWork
<1>5. InsertsDiffer'
  BY <1>1 DEF IInv, InsertsDiffer, Inserts, NoWork
<1>6. AloneUndisturbed'
  BY DEF AloneUndisturbed, Alone
<1>7. QED
  BY <1>2, <1>3, <1>4, <1>5, <1>6 DEF IInv

\* Requests that end, or get on with the principal they hold.
LEMMA ScreensMove ==
    ASSUME Screens, active' = active, desk' = [u \in Threads |-> desk'[u]],
           \A u \in Threads :
               /\ desk'[u] \in Desks
               /\ \/ desk'[u] = Away
                  \/ desk[u] # Away /\ desk'[u].principal = desk[u].principal
    PROVE  Screens'
<1>1. desk' \in [Threads -> Desks] /\ active' \in [Sessions -> Seq(Roles) \ {<<>>}]
  BY DEF Screens
<1>2. \A u \in Threads : Held(u)'
  BY DEF Screens, Held, Current
<1>3. QED
  BY <1>1, <1>2 DEF Screens, Desks

LEMMA EnterInv ==
    ASSUME IInv, NEW t \in Threads, NEW role \in Roles, Enter(t, role)
    PROVE  IInv'
<1> DEFINE s == SessionOf[t]
           k == Current(s)
<1>1. Screens /\ s \in Sessions /\ \A u \in Threads : SessionOf[u] \in Sessions
  BY SessionsTyped, TypedScreens DEF IInv
<1>2. /\ db' = db /\ tx' = tx /\ role \in RolesOf[s]
      /\ active' = [active EXCEPT ![s] = [@ EXCEPT ![k] = role]]
      /\ desk' = [desk EXCEPT ![t] = In(role, k)]
  BY DEF Enter
<1>3. /\ active[s] \in Seq(Roles) \ {<<>>} /\ k = Len(active[s])
      /\ active'[s] = [active[s] EXCEPT ![k] = role]
      /\ \A r \in Sessions : r # s => active'[r] = active[r]
  BY <1>1, <1>2 DEF Screens, Current
<1>4. /\ k \in 1 .. k /\ k \in Nat /\ Len(active'[s]) = k /\ active'[s][k] = role
      /\ active'[s] \in Seq(Roles) \ {<<>>}
  BY <1>3, MoreRoles
<1> HIDE DEF k, s
<1>5. In(role, k) \in Desks /\ In(role, k).at = role /\ In(role, k).principal = k
  BY <1>4 DEF In, Desks
<1>6. Screens'
  <2>1. active' \in [Sessions -> Seq(Roles) \ {<<>>}]
    BY <1>1, <1>2, <1>3, <1>4 DEF Screens
  <2>2. desk' \in [Threads -> Desks]
    BY <1>1, <1>2, <1>5 DEF Screens
  <2>3. \A r \in Sessions : Len(active'[r]) = Len(active[r])
    BY <1>3, <1>4
  <2>4. \A u \in Threads : Held(u)'
    BY <1>1, <1>2, <1>3, <1>4, <1>5, <2>3 DEF Screens, Held, Current, s
  <2>5. QED
    BY <2>1, <2>2, <2>4 DEF Screens, Desks
<1>7. ASSUME NEW u \in Threads, Alone(u) PROVE Undisturbed(u)'
  <2>1. Undisturbed(u)
    BY <1>7 DEF IInv, AloneUndisturbed
  <2>2. CASE u # t
    <3>1. active'[SessionOf[u]] = active[SessionOf[u]] /\ desk'[u] = desk[u]
      BY <1>1, <1>2, <1>3, <1>7, <2>2, AloneInSession DEF Screens, s
    <3>2. QED
      BY <1>2, <2>1, <3>1, StaysUndisturbed
  <2>3. CASE u = t
    <3>1. desk'[t].at = role /\ desk'[t].principal = k /\ role # "made"
      BY <1>1, <1>2, <1>5 DEF Screens, Roles
    <3>2. ActiveRole(t)' = role
      BY <1>4, <3>1 DEF ActiveRole, s
    <3>3. \A b \in Banners : Inserts(u, b)' = Inserts(u, b)
      BY <1>2 DEF Inserts
    <3>4. QED
      BY <1>2, <2>1, <2>3, <3>1, <3>2, <3>3 DEF Undisturbed, Own, s
  <2>4. QED
    BY <2>2, <2>3
<1>8. QED
  BY <1>2, <1>6, <1>7, QuietInv

LEMMA RenewInv ==
    ASSUME IInv, NEW t \in Threads, Renew(t)
    PROVE  IInv'
<1> DEFINE s == SessionOf[t]
<1>1. Screens /\ s \in Sessions /\ \A u \in Threads : SessionOf[u] \in Sessions
  BY SessionsTyped, TypedScreens DEF IInv
<1>2. /\ db' = db /\ tx' = tx
      /\ active' = [active EXCEPT ![s] = Append(@, "Authenticated")]
      /\ desk' = [desk EXCEPT ![t] = Away]
  BY DEF Renew
<1>3. /\ active[s] \in Seq(Roles) \ {<<>>}
      /\ active'[s] = Append(active[s], "Authenticated")
      /\ \A r \in Sessions : r # s => active'[r] = active[r]
  BY <1>1, <1>2 DEF Screens
<1>4. active'[s] \in Seq(Roles) \ {<<>>} /\ Len(active'[s]) = Len(active[s]) + 1
  BY <1>3, MoreRoles DEF Roles
<1> HIDE DEF s
<1>5. Screens'
  <2>1. active' \in [Sessions -> Seq(Roles) \ {<<>>}]
    BY <1>1, <1>2, <1>3, <1>4 DEF Screens
  <2>2. desk' \in [Threads -> Desks]
    BY <1>1, <1>2, TypedScreens DEF Screens
  <2>3. \A r \in Sessions : /\ Len(active[r]) \in Nat /\ Len(active'[r]) \in Nat
                             /\ Len(active'[r]) >= Len(active[r])
    <3>1. \A r \in Sessions : active[r] \in Seq(Roles)
      BY <1>1 DEF Screens
    <3>2. QED
      BY <1>3, <1>4, <3>1, LenProperties
  <2>4. \A u \in Threads : Held(u)'
    BY <1>1, <1>2, <2>3 DEF Screens, Held, Current
  <2>5. QED
    BY <2>1, <2>2, <2>4 DEF Screens, Desks
<1>6. ASSUME NEW u \in Threads, Alone(u) PROVE Undisturbed(u)'
  <2>1. Undisturbed(u)
    BY <1>6 DEF IInv, AloneUndisturbed
  <2>2. CASE u # t
    <3>1. active'[SessionOf[u]] = active[SessionOf[u]] /\ desk'[u] = desk[u]
      BY <1>1, <1>2, <1>3, <1>6, <2>2, AloneInSession DEF Screens, s
    <3>2. QED
      BY <1>2, <2>1, <3>1, StaysUndisturbed
  <2>3. CASE u = t
    <3>1. desk'[u].at \notin Roles \cup {"made"}
      BY <1>1, <1>2, <2>3, TypedScreens DEF Screens
    <3>2. QED
      BY <1>2, <2>1, <3>1, StaysUndisturbed
  <2>4. QED
    BY <2>2, <2>3
<1>7. QED
  BY <1>2, <1>5, <1>6, QuietInv

LEMMA NextInv == IInv /\ [Next]_vars => IInv'
<1> SUFFICES ASSUME IInv, [Next]_vars PROVE IInv'
  OBVIOUS
<1>1. /\ Screens
      /\ \A u \in Threads : desk[u] \in Desks
      /\ \A u \in Threads : Alone(u) => Undisturbed(u)
      /\ \A u \in Threads : SessionOf[u] \in Sessions
  BY SessionsTyped, TypedScreens DEF IInv, Screens, AloneUndisturbed
<1>2. Away \in Desks /\ Away.at \notin Roles \cup {"made"}
  BY TypedScreens
<1>3. ASSUME NEW t \in Threads, NEW role \in Roles, Enter(t, role)
      PROVE  IInv'
  BY <1>3, EnterInv
<1>4. ASSUME NEW t \in Threads, Leave(t)
      PROVE  IInv'
  <2>1. /\ db' = db /\ tx' = tx /\ active' = active
        /\ \A u \in Threads : desk'[u] = desk[u] \/ desk'[u] = Away
        /\ desk' = [u \in Threads |-> desk'[u]]
    BY <1>1, <1>4 DEF Leave, Screens
  <2>2. \A u \in Threads : Alone(u) => Undisturbed(u)'
    BY <1>1, <1>2, <2>1, StaysUndisturbed
  <2>3. Screens'
    BY <1>1, <1>2, <2>1, ScreensMove
  <2>4. QED
    BY <1>4, <2>1, <2>2, <2>3, QuietInv
<1>5. ASSUME NEW t \in Threads, BannerInstantiate(t)
      PROVE  IInv'
  <2> DEFINE made == [desk[t] EXCEPT !.at = "made", !.sponsor = ActiveSponsor(t)]
  <2>1. /\ db' = db /\ tx' = tx /\ active' = active /\ desk[t].at = "Sponsor"
        /\ \A u \in Threads : desk'[u] = IF u = t THEN made ELSE desk[u]
        /\ desk' = [u \in Threads |-> desk'[u]]
    BY <1>1, <1>5 DEF BannerInstantiate, Screens
  <2>2. ActiveSponsor(t) \in Sponsors \cup {NoSponsor}
    BY <1>1, SessionsTyped DEF ActiveSponsor
  <2>3. /\ made \in Desks /\ made.at = "made" /\ made.sponsor = ActiveSponsor(t)
        /\ made.principal = desk[t].principal
    BY <1>1, <2>2 DEF Desks
  <2> HIDE DEF made
  <2>4. desk[t] # Away
    BY <2>1 DEF Away
  <2>5. Screens'
    <3>1. \A u \in Threads :
              /\ desk'[u] \in Desks
              /\ \/ desk'[u] = Away
                 \/ desk[u] # Away /\ desk'[u].principal = desk[u].principal
      BY <1>1, <2>1, <2>3, <2>4
    <3>2. QED
      BY <1>1, <2>1, <3>1, ScreensMove
  <2>6. ASSUME NEW u \in Threads, Alone(u) PROVE Undisturbed(u)'
    <3>1. CASE u # t
      BY <1>1, <2>1, <2>6, <3>1, StaysUndisturbed
    <3>2. CASE u = t
      <4>1. ActiveRole(t) = "Sponsor" /\ "Sponsor" \in RolesOf[SessionOf[t]]
        BY <1>1, <2>1, <2>6, <3>2 DEF Undisturbed, Roles
      <4>2. Own(t) \in Sponsors /\ ActiveSponsor(t) = Own(t)
        BY <1>1, <4>1, SessionsTyped DEF Own, ActiveSponsor
      <4>3. desk'[t].at = "made" /\ desk'[t].sponsor = Own(t) /\ desk'[t].principal = desk[t].principal
        BY <2>1, <2>3, <4>2
      <4>4. ActiveRole(t)' = "Sponsor"
        BY <2>1, <4>1, <4>3 DEF ActiveRole
      <4>5. \A b \in Banners : Inserts(t, b)' = Inserts(t, b)
        BY <2>1 DEF Inserts
      <4>6. Own(t)' = Own(t)
        BY DEF Own
      <4>7. QED
        BY <1>1, <2>1, <2>6, <3>2, <4>2, <4>3, <4>4, <4>5, <4>6 DEF Undisturbed, Roles
    <3>3. QED
      BY <3>1, <3>2
  <2>7. QED
    BY <1>5, <2>1, <2>5, <2>6, QuietInv
<1>6. ASSUME NEW t \in Threads, Rollback(t)
      PROVE  IInv'
  <2>1. /\ db' = db /\ tx' = [tx EXCEPT ![t] = NoWork] /\ active' = active
        /\ \A u \in Threads : desk'[u] = desk[u] \/ desk'[u] = Away
        /\ \A u \in Threads : tx'[u] = tx[u] \/ tx'[u] = NoWork
        /\ desk' = [u \in Threads |-> desk'[u]]
    BY <1>1, <1>6 DEF Rollback, Discard, IInv, TypeOK, Screens
  <2>2. \A u \in Threads : Alone(u) => Undisturbed(u)'
    BY <1>1, <1>2, <2>1, StaysUndisturbed
  <2>3. Screens'
    BY <1>1, <1>2, <2>1, ScreensMove
  <2>4. QED
    BY <1>6, <2>1, <2>2, <2>3, QuietInv
<1>7. ASSUME NEW t \in Threads, Commit(t)
      PROVE  IInv'
  BY <1>7, CommitInv
<1>8. ASSUME NEW t \in Threads, Administrator(t)
      PROVE  IInv'
  BY <1>8, NoticesAreSafe, ServeInv DEF IInv
<1>9. ASSUME NEW t \in Threads, Sponsor(t)
      PROVE  IInv'
  <2>1. CASE BannerInstantiate(t)
    BY <1>5, <2>1
  <2>2. CASE CommercialCreate(t) \/ NonCommercialCreate(t)
    BY <2>2, BannersAreSafe, ServeInv DEF IInv
  <2>3. CASE SponsorUpdate(t) \/ BannerUpdate(t) \/ BannerDelete(t)
    BY <2>3, EditsAreSafe, ServeInv DEF IInv
  <2>4. QED
    BY <1>9, <2>1, <2>2, <2>3 DEF Sponsor
<1>10. ASSUME NEW t \in Threads, Renew(t)
       PROVE  IInv'
  BY <1>10, RenewInv
<1>11. CASE UNCHANGED vars
  <2>1. db' = db /\ tx' = tx /\ active' = active /\ desk' = desk
    BY <1>11 DEF vars
  <2>2. \A u \in Threads : Alone(u) => Undisturbed(u)'
    BY <1>1, <2>1, StaysUndisturbed
  <2>3. Screens'
    BY <1>1, <2>1 DEF Screens, Held, Current, Desks
  <2>4. CASE Threads = {}
    BY <2>1, <2>2, <2>4, <2>3 DEF IInv, TypeOK, Screens, Desks, RowOf, PendingLawful, LawfulWork, LawfulChange, Own,
              OptimisticReads, InsertsDiffer, Inserts, AloneUndisturbed, Alone
  <2>5. CASE Threads # {}
    BY <1>1, <2>1, <2>2, <2>5, <2>3, QuietInv
  <2>6. QED
    BY <2>4, <2>5
<1>12. QED
  BY <1>3, <1>4, <1>6, <1>7, <1>8, <1>9, <1>10, <1>11 DEF Next

\* Rows change in a commit only.
LEMMA OnlyCommitsWrite ==
    ASSUME [Next]_vars, NEW b, db'[b] # db[b]
    PROVE  \E t \in Threads : Commit(t)
<1>1. ASSUME NEW t \in Threads, Administrator(t) \/ Sponsor(t)
      PROVE  db' = db
  BY <1>1 DEF Administrator, NoticeCreate, NoticeUpdate, NoticeDelete, Sponsor, SponsorUpdate,
              BannerInstantiate, CommercialCreate, NonCommercialCreate, BannerUpdate, BannerDelete,
              Serve, Hold
<1>2. QED
  BY <1>1 DEF Next, vars, Enter, Leave, Renew, Rollback, Discard

LEMMA Invariance == Spec => []IInv
BY InitInv, NextInv, PTL DEF Spec

-----------------------------------------------------------------------------
(* The theorems *)

\* Rows, active roles and requests keep to their types, for any number of them.
THEOREM TypeCorrect == Spec => []TypeOK
BY Invariance, PTL DEF IInv

\* authorise compares a banner's sponsor with an active role that other requests
\* of the session may have set meanwhile: it may fail for it, but it never lets
\* anybody edit a banner that is not his.
THEOREM SponsorsEditTheirOwn == Spec => OnlyItsSponsorEdits
<1>1. ASSUME IInv, [Next]_vars, NEW b \in Banners, Live(db[b]), db'[b] # db[b]
      PROVE  \E t \in Threads :
                /\ b \in DOMAIN tx[t] /\ tx'[t] = NoWork
                /\ db[b].sponsor # NoSponsor /\ db[b].sponsor = SponsorOf[SessionOf[t]]
  <2>1. PICK t \in Threads : Commit(t)
    BY <1>1, OnlyCommitsWrite
  <2>2. b \in DOMAIN tx[t] /\ LawfulChange(t, b, db[b], db'[b])
    BY <1>1, <2>1, FlushedRows, IdsAre DEF Commit
  <2>3. tx'[t] = NoWork
    BY <1>1, <2>1 DEF Commit, Flush, IInv, TypeOK
  <2>4. QED
    BY <1>1, <2>2, <2>3 DEF LawfulChange, Own
<1>2. IInv /\ [Next]_vars =>
        [\A b \in Banners : Live(db[b]) /\ db'[b] # db[b] =>
            \E t \in Threads :
                /\ b \in DOMAIN tx[t] /\ tx'[t] = NoWork
                /\ db[b].sponsor # NoSponsor
                /\ db[b].sponsor = SponsorOf[SessionOf[t]]]_vars
  BY <1>1
<1>3. QED
  BY <1>2, Invariance, PTL DEF Spec, OnlyItsSponsorEdits

\* Whoever is alone with his sponsor, in all his sessions, stores banners of his
\* own, and commercial ones only with a card on record at that moment.
THEOREM BannersArePaid == Spec => PaidByItsMaker
<1>1. ASSUME IInv, [Next]_vars, NEW t \in Threads, NEW b \in Banners \cap DOMAIN tx[t],
             Alone(t), db[b] = Unborn, db'[b] # Unborn
      PROVE  /\ db'[b].sponsor = SponsorOf[SessionOf[t]]
             /\ b \in Commercials => db[db'[b].sponsor].card
  <2>1. PICK u \in Threads : Commit(u)
    BY <1>1, OnlyCommitsWrite
  <2>2. b \in Ids
    BY IdsAre
  <2>3. b \in DOMAIN tx[u] /\ db'[b] = tx[u][b].new /\ tx[u][b].old = Unborn
    BY <1>1, <2>1, <2>2, FlushedRows DEF Commit
  <2>4. tx[t][b].old = Unborn
    <3>1. tx[t][b].old \in RowOf(b) /\ tx[t][b].old # Gone
      BY <1>1 DEF IInv, PendingLawful, LawfulWork, LawfulChange
    <3>2. ~Live(tx[t][b].old)
      BY <1>1, BlankRows DEF IInv, OptimisticReads
    <3>3. QED
      BY <3>1, <3>2, RowKinds, LiveRows
  <2>5. u = t
    BY <1>1, <2>2, <2>3, <2>4 DEF IInv, InsertsDiffer, Inserts
  <2>6. Undisturbed(t)
    BY <1>1 DEF IInv, AloneUndisturbed
  <2>7. QED
    BY <2>3, <2>4, <2>5, <2>6 DEF Undisturbed, Inserts, Own
<1>2. IInv /\ [Next]_vars =>
        [\A t \in Threads : \A b \in Banners \cap DOMAIN tx[t] :
            Alone(t) /\ db[b] = Unborn /\ db'[b] # Unborn =>
                /\ db'[b].sponsor = SponsorOf[SessionOf[t]]
                /\ b \in Commercials => db[db'[b].sponsor].card]_vars
  BY <1>1
<1>3. QED
  BY <1>2, Invariance, PTL DEF Spec, PaidByItsMaker

\* The bulletin's rows change as in AtomicRows: two administrators who edit one
\* notice never overwrite each other, and principals and the steps of requests
\* have no part in it.
THEOREM RowsAreAtomic == Spec => KeepsRowsAtomic
<1> DEFINE claim == [t \in Threads |-> [i \in DOMAIN tx[t] |-> tx[t][i].old]]
<1>1. Init => Rows!Init
  <2> SUFFICES ASSUME Init PROVE Rows!Init
    OBVIOUS
  <2>1. db = [i \in Ids |-> db[i]]
    BY InitInv DEF IInv, TypeOK
  <2>2. QED
    BY <2>1, FreshIsInit DEF Init
<1>2. IInv /\ [Next]_vars => [Rows!Next]_<<db, claim>>
  <2> SUFFICES ASSUME IInv, [Next]_vars PROVE [Rows!Next]_<<db, claim>>
    OBVIOUS
  <2>1. Tables /\ AllVersioned /\ OptimisticReads
    BY TypedTables DEF IInv
  <2>2. ASSUME NEW t \in Threads, NEW w, Serve(t, w), Safe(t, w)
        PROVE  Rows!Next
    <3>1. Rows!Claim(t)
      BY <2>1, <2>2, HoldIsClaim DEF Serve, Safe
    <3>2. QED
      BY <3>1 DEF Rows!Next
  <2>3. ASSUME NEW t \in Threads, Administrator(t)
        PROVE  Rows!Next
    BY <2>2, <2>3, NoticesAreSafe DEF IInv
  <2>4. ASSUME NEW t \in Threads, Sponsor(t), ~BannerInstantiate(t)
        PROVE  Rows!Next
    BY <2>2, <2>4, BannersAreSafe, EditsAreSafe DEF IInv, Sponsor
  <2>5. ASSUME NEW t \in Threads, Commit(t)
        PROVE  Rows!Next
    <3>1. Rows!Change(t)
      BY <2>1, <2>5, FlushIsChange DEF Commit
    <3>2. QED
      BY <3>1 DEF Rows!Next
  <2>6. ASSUME NEW t \in Threads, Rollback(t)
        PROVE  Rows!Next
    <3>1. Rows!GiveUp(t)
      BY <2>1, <2>6, DiscardIsGiveUp DEF Rollback
    <3>2. QED
      BY <3>1 DEF Rows!Next
  <2>7. ASSUME \/ \E t \in Threads : \E role \in Roles : Enter(t, role)
               \/ \E t \in Threads : Leave(t) \/ Renew(t) \/ BannerInstantiate(t)
               \/ UNCHANGED vars
        PROVE  UNCHANGED <<db, claim>>
    BY <2>7 DEF Enter, Leave, Renew, BannerInstantiate, vars
  <2>8. QED
    BY <2>3, <2>4, <2>5, <2>6, <2>7 DEF Next
<1>3. QED
  BY <1>1, <1>2, Invariance, PTL DEF Spec, KeepsRowsAtomic, Rows!Spec

=============================================================================
