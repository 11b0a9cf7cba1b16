---------------------------- MODULE AuthProofs ----------------------------
(***************************************************************************)
(* What holds of any number of processes, sign-ins and refreshes over one  *)
(* auth.json: no login is mislaid, the file is never torn, and a code goes *)
(* to the server with its own verifier.                                    *)
(***************************************************************************)
EXTENDS Auth, TLAPS

AllGrants == 1 .. MaxGrants

(* The token is one the server honours. *)
Honoured(t) == t.grant \in AllGrants /\ t.refresh = live[t.grant]

Old(doc) == \A n \in Members : doc.at[n].token.refresh <= issued

FileInv ==
  /\ IsDoc(file, AllGrants) /\ file.form # "garbled" /\ Old(file)
  /\ issued \in Nat /\ live \in [AllGrants -> Nat] /\ \A g \in AllGrants : live[g] <= issued

(* What r, the state of a process, has read: the entry it is about to save  *)
(* and the draft it is about to install agree with the file on every token  *)
(* the server honours, or somebody has moved that token since it read it.   *)
Agrees(r, n, t) == t = file.at[n].token \/ file.at[n].token.grant \in r.unread

Reading == {"post", "save", "rename"}

Entered(r) ==
  /\ r.name \in Names /\ IsEntry(r.entry, AllGrants) /\ r.entry.token.refresh <= issued
  /\ r.pc \in {"post", "save"} => r.entry.kind = "oauth"
  /\ Honoured(file.at[r.name].token) /\ file.at[r.name].token.grant = r.entry.token.grant
       => Agrees(r, r.name, r.entry.token)
  /\ file.form # "named" /\ Honoured(file.at[Unnamed].token)
        /\ file.at[Unnamed].token.grant = r.entry.token.grant
       => r.entry.token = file.at[Unnamed].token

Drafted(r) ==
  /\ IsDoc(r.draft, AllGrants) /\ r.draft.form = "named" /\ Old(r.draft)
  /\ r.draft.at[r.name] = r.entry
  /\ \A n \in Names \ {r.name} : Honoured(file.at[n].token) => Agrees(r, n, r.draft.at[n].token)

Shaped(r) == DOMAIN r = DOMAIN Off

Good(r) ==
  /\ Shaped(r) /\ r.called \in Names \cup {Unnamed}
  /\ r.pc # "off" => r.name \in Names
  /\ r.pc \in {"new", "idle", "post"} => r.called \in Names
  /\ r.pc \in Reading => Entered(r)
  /\ r.pc = "rename" /\ r.draft # Garbled => Drafted(r)
  /\ r.pc = "exchange" => r.code = r.verifier

Hand(r) == IF r.pc \in {"save", "rename"} THEN r.entry.token ELSE NoToken

ProcInv == DOMAIN proc = Procs /\ \A p \in Procs : Good(proc[p])

Inv == FileInv /\ ProcInv /\ NotMislaid

-----------------------------------------------------------------------------
(* Documents. *)

\* save_token, auth_save_api_key and oauth_remove_provider write a document
\* that has the entry under its name and every other login of the old one.
LEMMA SavedIs ==
  ASSUME NEW doc, IsDoc(doc, AllGrants), NEW name \in Names, NEW e, IsEntry(e, AllGrants)
  PROVE  /\ IsDoc(Saved(doc, name, e), AllGrants) /\ Saved(doc, name, e).form = "named"
         /\ Saved(doc, name, e).at[name] = e
         /\ \A n \in Names \ {name} : Saved(doc, name, e).at[n] = doc.at[n]
         /\ Saved(doc, name, e).at[Unnamed] = NoEntry
<1> DEFINE c == Copied(doc, name)
<1>1. DOMAIN c = Members /\ Names \subseteq Members /\ Unnamed \in Members /\ Unnamed \notin Names
  BY DEF Copied, Blank, Members, Names, CHATGPT, CODEX, KEYED, Unnamed
<1>2. \A n \in Names \ {name} : c[n] = doc.at[n]
  <2>1. SUFFICES ASSUME NEW n \in Names \ {name} PROVE c[n] = doc.at[n]
    OBVIOUS
  <2>2. n \in Members /\ IsEntry(doc.at[n], AllGrants)
    BY <1>1 DEF IsDoc
  <2>3. CASE doc.form = "named"
    <3>1. c[n] = IF doc.at[n].kind \in {"oauth", "key"} THEN doc.at[n] ELSE NoEntry
      BY <2>2, <2>3 DEF Copied
    <3>2. doc.at[n] = NoEntry \/ doc.at[n].kind \in {"oauth", "key"}
      BY <2>2 DEF IsEntry, Key
    <3> QED BY <3>1, <3>2
  <2>4. CASE doc.form # "named"
    BY <1>1, <2>2, <2>4 DEF Copied, Blank, IsDoc
  <2> QED BY <2>3, <2>4
<1>3. c[Unnamed] = NoEntry
  BY <1>1 DEF Copied, Blank, IsDoc, NoEntry
<1>4. \A n \in Members : IsEntry(c[n], AllGrants)
  BY <1>1 DEF Copied, Blank, IsDoc, IsEntry
<1>5. Saved(doc, name, e) = Doc("named", [c EXCEPT ![name] = e])
  BY DEF Saved
<1> HIDE DEF c
<1>6. /\ [c EXCEPT ![name] = e][name] = e
      /\ \A n \in Members \ {name} : [c EXCEPT ![name] = e][n] = c[n]
      /\ DOMAIN [c EXCEPT ![name] = e] = Members
      /\ [c EXCEPT ![name] = e][Unnamed] = NoEntry
  BY <1>1, <1>3
<1>7. \A n \in Members : IsEntry([c EXCEPT ![name] = e][n], AllGrants)
  BY <1>4, <1>6
<1>8. \A n \in Names \ {name} : [c EXCEPT ![name] = e][n] = doc.at[n]
  BY <1>1, <1>2, <1>6
<1> DEFINE s == [c EXCEPT ![name] = e]
<1> HIDE DEF s
<1>9. Saved(doc, name, e) = Doc("named", s)
  BY <1>5 DEF s
<1>10. Doc("named", s).form = "named" /\ Doc("named", s).at = s /\ Doc("named", s) = Doc("named", s)
  BY DEF Doc
<1>11. /\ DOMAIN s = Members /\ s[name] = e /\ s[Unnamed] = NoEntry
       /\ \A n \in Members : IsEntry(s[n], AllGrants)
       /\ \A n \in Names \ {name} : s[n] = doc.at[n]
  BY <1>6, <1>7, <1>8 DEF s
<1> QED BY <1>9, <1>10, <1>11 DEF IsDoc

-----------------------------------------------------------------------------
(* Steps that leave the file and the grants alone. *)

\* Go puts one process in a state and leaves the others.
LEMMA GoIs ==
  ASSUME DOMAIN proc = Procs, NEW p \in Procs, NEW r, Go(p, r)
  PROVE  /\ DOMAIN proc' = Procs /\ proc'[p] = r
         /\ \A q \in Procs \ {p} : proc'[q] = proc[q]
BY DEF Go

LEMMA FileStays ==
  ASSUME FileInv, UNCHANGED << file, live, issued >>
  PROVE  FileInv'
BY DEF FileInv, Old

\* Whoever held a login holds it still, or it has been lost with a reason.
LEMMA HeldOn ==
  ASSUME NotMislaid, UNCHANGED << file, live >>, DOMAIN proc = Procs,
         NEW p \in Procs, NEW r, Go(p, r),
         \/ lost' = lost /\ Hand(proc[p]) \in {NoToken, Hand(r)}
         \/ Lose({proc[p].entry.token.grant})
  PROVE  NotMislaid'
<1>1. \A q \in Procs \ {p} : InHand(q)' = InHand(q)
  BY GoIs DEF InHand
<1>2. InHand(p) = Hand(proc[p]) /\ InHand(p)' = Hand(r)
  BY GoIs DEF InHand, Hand
<1>3. SUFFICES ASSUME NEW g \in AllGrants, live[g] # 0, g \notin lost'
               PROVE  Held(g)'
  BY DEF NotMislaid, AllGrants
<1>4. lost \subseteq lost'
  BY DEF Lose
<1>5. Held(g)
  BY <1>3, <1>4 DEF NotMislaid, AllGrants
<1> DEFINE t == [grant |-> g, refresh |-> live[g]]
<1>6. CASE t \in Tokens(file)
  BY <1>6 DEF Held
<1>7. CASE \E q \in Procs \ {p} : InHand(q) = t
  <2>1. PICK q \in Procs \ {p} : InHand(q) = t
    BY <1>7
  <2>2. InHand(q)' = t
    BY <1>1, <2>1
  <2> QED BY <2>2 DEF Held
<1>8. CASE InHand(p) = t
  <2>1. t # NoToken /\ t.grant = g /\ g # 0
    BY <1>3 DEF NoToken, AllGrants
  <2>2. proc[p].entry.token.grant = g
    BY <1>2, <1>8, <2>1 DEF Hand
  <2>3. CASE lost' = lost /\ Hand(proc[p]) \in {NoToken, Hand(r)}
    <3>1. InHand(p)' = t
      BY <1>2, <1>8, <2>1, <2>3
    <3> QED BY <3>1 DEF Held
  <2>4. CASE Lose({proc[p].entry.token.grant})
    BY <1>3, <2>1, <2>2, <2>4 DEF Lose
  <2> QED BY <2>3, <2>4
<1> QED BY <1>5, <1>6, <1>7, <1>8 DEF Held

LEMMA GoKeeps ==
  ASSUME Inv, UNCHANGED << file, live, issued >>, NEW p \in Procs, NEW r, Go(p, r), Good(r),
         \/ lost' = lost /\ Hand(proc[p]) \in {NoToken, Hand(r)}
         \/ Lose({proc[p].entry.token.grant})
  PROVE  Inv'
<1>1. DOMAIN proc = Procs /\ NotMislaid /\ FileInv /\ \A q \in Procs : Good(proc[q])
  BY DEF Inv, ProcInv
<1>2. NotMislaid'
  BY <1>1, HeldOn
<1>3. DOMAIN proc' = Procs /\ proc'[p] = r /\ \A q \in Procs \ {p} : proc'[q] = proc[q]
  BY <1>1, GoIs
<1>4. \A q \in Procs : Good(proc'[q])
  BY <1>1, <1>3
<1>5. \A q \in Procs : Good(proc[q])'
  <2>1. SUFFICES ASSUME NEW q \in Procs PROVE Good(proc[q])'
    OBVIOUS
  <2>2. Good(proc'[q])
    BY <1>4
  <2> QED BY <2>2 DEF Good, Shaped, Entered, Drafted, Agrees, Honoured, Old
<1> QED BY <1>1, <1>2, <1>3, <1>5, FileStays DEF Inv, ProcInv

LEMMA OffIs ==
  ASSUME NEW c \in Names \cup {Unnamed}, NEW q \in {"listen", "poll"},
         NEW name \in Names, NEW port, NEW verifier
  PROVE  /\ Good(Off) /\ Hand(Off) = NoToken
         /\ Good([Off EXCEPT !.pc = "idle", !.name = c, !.called = c]) \/ c = Unnamed
         /\ Hand([Off EXCEPT !.pc = "idle", !.name = c, !.called = c]) = NoToken
         /\ Good([Off EXCEPT !.pc = q, !.name = name, !.port = port, !.verifier = verifier])
BY DEF Good, Shaped, Hand, Off, Reading

\* A step of the providers, and what ends one.
LEMMA ProviderKeeps ==
  ASSUME Inv, NEW p \in Procs,
         \/ \E name \in {CHATGPT, CODEX} : Start(p, name)
         \/ \E expiring \in BOOLEAN : Prepare(p, expiring)
         \/ Refused(p)
  PROVE  Inv'
<1>1. Good(proc[p]) /\ FileInv
  BY DEF Inv, ProcInv
<1>2. ASSUME NEW name \in {CHATGPT, CODEX}, Start(p, name) PROVE Inv'
  <2> DEFINE r == [Off EXCEPT !.pc = "new", !.name = CHATGPT, !.called = name]
  <2>1. Good(r)
    BY DEF Good, Shaped, Off, Reading, Names
  <2>2. Hand(proc[p]) = NoToken
    BY <1>2 DEF Start, At, Hand
  <2> HIDE DEF r
  <2>3. Go(p, r) /\ UNCHANGED << file, live, issued, lost >>
    BY <1>2 DEF Start, r
  <2> QED BY <2>1, <2>2, <2>3, GoKeeps
<1>3. ASSUME proc[p].pc \in {"new", "idle", "post"}, Go(p, Idle(p)),
             UNCHANGED << file, live, issued, lost >>
      PROVE  Inv'
  <2>1. Good(Idle(p)) /\ Hand(proc[p]) = NoToken
    BY <1>1, <1>3 DEF Good, Shaped, Idle, Off, Hand, Reading
  <2> QED BY <1>3, <2>1, GoKeeps
<1>4. ASSUME proc[p].pc \in {"new", "idle"}, TokenOf(file, proc[p].name) # NoToken,
             Go(p, [proc[p] EXCEPT !.pc = "post", !.entry = Login(TokenOf(file, proc[p].name))]),
             UNCHANGED << file, live, issued, lost >>
      PROVE  Inv'
  <2> DEFINE t == TokenOf(file, proc[p].name)
             r == [proc[p] EXCEPT !.pc = "post", !.entry = Login(t)]
             name == proc[p].name
  <2>1. name \in Names /\ DOMAIN proc[p] = DOMAIN Off /\ proc[p].called \in Names
    BY <1>1, <1>4 DEF Good, Shaped
  <2>2. /\ r.pc = "post" /\ r.name = name /\ r.called = proc[p].called
        /\ r.entry = Login(t) /\ DOMAIN r = DOMAIN Off
    BY <2>1 DEF Off
  <2>3. IsDoc(file, AllGrants) /\ Old(file) /\ Names \subseteq Members /\ Unnamed \in Members /\ CODEX \in Names
    BY <1>1 DEF FileInv, Members, Names
  <2>4. /\ file.form = "named" => t = file.at[name].token \/ file.at[name] = NoEntry
        /\ file.form # "named" => t = file.at[Unnamed].token /\ file.at[name] = NoEntry
        /\ \E n \in Members : t = file.at[n].token
    BY <2>1, <2>3 DEF TokenOf, EntryOf, IsDoc
  <2> HIDE DEF r, t
  <2>5. PICK n \in Members : t = file.at[n].token
    BY <2>4
  <2>6. IsEntry(file.at[n], AllGrants) /\ t.refresh <= issued /\ t # NoToken
    BY <1>4, <2>3, <2>5 DEF IsDoc, Old, t
  <2>7. IsEntry(Login(t), AllGrants) /\ Login(t).kind = "oauth" /\ Login(t).token = t
    BY <2>5, <2>6 DEF IsEntry, Login, NoEntry, Key
  <2>8. ~Honoured(NoEntry.token)
    BY DEF Honoured, NoEntry, NoToken, AllGrants
  <2>9. Entered(r)
    BY <2>1, <2>2, <2>4, <2>6, <2>7, <2>8 DEF Entered, Agrees
  <2>10. Good(r) /\ Hand(proc[p]) = NoToken
    BY <1>4, <2>1, <2>2, <2>9 DEF Good, Shaped, Hand
  <2>11. Go(p, r) /\ UNCHANGED << file, live, issued, lost >>
    BY <1>4 DEF r, t
  <2> QED BY <2>10, <2>11, GoKeeps
<1> QED BY <1>2, <1>3, <1>4 DEF Prepare, Refused, At

\* What ends a process drops its login with a reason.
LEMMA EndKeeps ==
  ASSUME Inv, NEW p \in Procs, Discard(p) \/ Crash(p)
  PROVE  Inv'
<1>1. Good(proc[p])
  BY DEF Inv, ProcInv
<1>2. Good(Off)
  BY DEF Good, Shaped, Off, Reading
<1>3. Good(Ended(p))
  BY <1>1, <1>2 DEF Good, Shaped, Ended, Idle, Off, Reading
<1>4. /\ UNCHANGED << file, live, issued >> /\ Lose({proc[p].entry.token.grant})
      /\ Go(p, Off) \/ Go(p, Ended(p))
  BY DEF Discard, Crash
<1> QED BY <1>2, <1>3, <1>4, GoKeeps

\* A sign-in, up to the exchange of its code, touches no login.
LEMMA SignInKeeps ==
  ASSUME Inv, NEW p \in Procs,
         \/ \E port \in Ports : Browser(p, port)
         \/ \E a \in asked : Callback(p, a)
         \/ Device(p) \/ Approved(p) \/ GiveUp(p)
  PROVE  Inv'
<1>1. Good(proc[p])
  BY DEF Inv, ProcInv
<1>2. /\ proc[p].pc \in {"off", "listen", "poll", "exchange"}
      /\ UNCHANGED << file, live, issued, lost >>
  BY DEF Browser, Callback, Device, Approved, GiveUp, At
<1>3. Hand(proc[p]) = NoToken /\ Good(Off) /\ CODEX \in Names
  BY <1>2 DEF Hand, Good, Shaped, Off, Reading, Names
<1>4. ASSUME NEW r, Good(r), Go(p, r) PROVE Inv'
  BY <1>2, <1>3, <1>4, GoKeeps
<1>5. ASSUME NEW port \in Ports, Browser(p, port) PROVE Inv'
  <2> DEFINE r == [Off EXCEPT !.pc = "listen", !.name = CODEX, !.port = port, !.verifier = Attempt]
  <2>1. Good(r)
    BY <1>3 DEF Good, Shaped, Off, Reading
  <2> HIDE DEF r
  <2>2. Go(p, r)
    BY <1>5 DEF Browser, r
  <2> QED BY <1>4, <2>1, <2>2
<1>6. ASSUME NEW a \in asked, Callback(p, a) PROVE Inv'
  <2> DEFINE r == [proc[p] EXCEPT !.pc = "exchange", !.port = 0, !.code = a.attempt]
  <2>1. OwnState(p, a) => Good(r)
    BY <1>1, <1>6 DEF Callback, At, OwnState, Good, Shaped, Off, Reading
  <2> HIDE DEF r
  <2>2. IF OwnState(p, a) THEN Go(p, r) ELSE Go(p, Off)
    BY <1>6 DEF Callback, r
  <2> QED BY <1>3, <1>4, <2>1, <2>2
<1>7. CASE Device(p)
  <2> DEFINE r == [Off EXCEPT !.pc = "poll", !.name = CODEX]
  <2>1. Good(r)
    BY <1>3 DEF Good, Shaped, Off, Reading
  <2> HIDE DEF r
  <2>2. Go(p, r)
    BY <1>7 DEF Device, r
  <2> QED BY <1>4, <2>1, <2>2
<1>8. CASE Approved(p)
  <2> DEFINE r == [proc[p] EXCEPT !.pc = "exchange", !.code = proc[p].verifier]
  <2>1. Good(r)
    BY <1>1, <1>8 DEF Approved, At, Good, Shaped, Off, Reading
  <2> HIDE DEF r
  <2>2. Go(p, r)
    BY <1>8 DEF Approved, r
  <2> QED BY <1>4, <2>1, <2>2
<1>9. CASE GiveUp(p)
  BY <1>3, <1>4, <1>9 DEF GiveUp
<1> QED BY <1>5, <1>6, <1>7, <1>8, <1>9

-----------------------------------------------------------------------------
(* Saving. *)

\* A draft holds the entry to save and every other login that was read.
LEMMA DraftIs ==
  ASSUME FileInv, NEW r, r.name \in Names, IsEntry(r.entry, AllGrants),
         r.entry.token.refresh <= issued, r.draft = Saved(file, r.name, r.entry)
  PROVE  Drafted(r)
<1>1. IsDoc(file, AllGrants) /\ Old(file)
  BY DEF FileInv
<1>2. /\ IsDoc(r.draft, AllGrants) /\ r.draft.form = "named" /\ r.draft.at[r.name] = r.entry
      /\ \A n \in Names \ {r.name} : r.draft.at[n] = file.at[n]
      /\ r.draft.at[Unnamed] = NoEntry
  <2>1. \A name \in Names : \A e : IsEntry(e, AllGrants) =>
          LET d == Saved(file, name, e)
          IN  /\ IsDoc(d, AllGrants) /\ d.form = "named" /\ d.at[name] = e
              /\ \A n \in Names \ {name} : d.at[n] = file.at[n]
              /\ d.at[Unnamed] = NoEntry
    BY <1>1, SavedIs
  <2> QED BY <2>1
<1>3. Members = Names \cup {Unnamed} /\ issued \in Nat
  BY DEF Members, FileInv
<1>4. Old(r.draft)
  <2>1. SUFFICES ASSUME NEW n \in Names \cup {Unnamed} PROVE r.draft.at[n].token.refresh <= issued
    BY <1>3 DEF Old
  <2>2. NoEntry.token.refresh <= issued
    BY <1>3 DEF NoEntry, NoToken
  <2>3. n \in Names => file.at[n].token.refresh <= issued
    BY <1>1, <1>3 DEF Old
  <2> QED BY <1>2, <2>1, <2>2, <2>3
<1> QED BY <1>2, <1>4 DEF Drafted, Agrees

LEMMA GarbledIs == Garbled.form # "named" /\ Garbled = Garbled
BY DEF Garbled, Doc

LEMMA SaveReadKeeps ==
  ASSUME Inv, NEW p \in Procs, NEW whole \in BOOLEAN, SaveRead(p, whole)
  PROVE  Inv'
<1> DEFINE r == [proc[p] EXCEPT !.pc = "rename",
                         !.draft = Written(Saved(file, proc[p].name, proc[p].entry), whole),
                         !.unread = @ \cap {file.at[proc[p].name].token.grant}]
<1>1. Good(proc[p]) /\ FileInv /\ proc[p].pc = "save"
  BY DEF Inv, ProcInv, SaveRead, At
<1>2. DOMAIN proc[p] = DOMAIN Off /\ Entered(proc[p])
  BY <1>1 DEF Good, Shaped, Reading
<1>3. /\ r.pc = "rename" /\ r.name = proc[p].name /\ r.entry = proc[p].entry
      /\ r.draft = Written(Saved(file, proc[p].name, proc[p].entry), whole)
      /\ r.unread = proc[p].unread \cap {file.at[proc[p].name].token.grant}
      /\ DOMAIN r = DOMAIN Off /\ r.called = proc[p].called
  BY <1>2 DEF Off
<1>4. Go(p, r) /\ UNCHANGED << file, live, issued, lost >>
  BY DEF SaveRead
<1> HIDE DEF r
<1>5. Entered(r)
  BY <1>2, <1>3 DEF Entered, Agrees
<1>6. r.draft # Garbled => Drafted(r)
  <2>1. SUFFICES ASSUME r.draft # Garbled PROVE Drafted(r)
    OBVIOUS
  <2>2. r.draft = Saved(file, r.name, r.entry)
    BY <1>3, <2>1 DEF Written
  <2> QED BY <1>1, <1>5, <2>2, DraftIs DEF Entered
<1>7. Good(r)
  BY <1>1, <1>3, <1>5, <1>6 DEF Good, Shaped
<1>8. Hand(proc[p]) = Hand(r)
  BY <1>1, <1>3 DEF Hand
<1> QED BY <1>4, <1>7, <1>8, GoKeeps

\* What a process writes that starts with the writing: a key, or nothing.
LEMMA FreshDraftKeeps ==
  ASSUME Inv, NEW p \in Procs, NEW name \in Names, NEW e \in {Key, NoEntry}, NEW r,
         Shaped(r), r.pc = "rename", r.called = Unnamed, r.name = name, r.entry = e,
         r.draft \in {Garbled, Saved(file, name, e)},
         At(p, "off"), Go(p, r), UNCHANGED << file, live, issued, lost >>
  PROVE  Inv'
<1>1. FileInv /\ issued \in Nat
  BY DEF Inv, FileInv
<1>2. IsEntry(e, AllGrants)
  BY DEF IsEntry
<1> e.token.refresh = 0 /\ e.token.grant = 0
  BY DEF Key, NoEntry, NoToken
<1>3. \A t : Honoured(t) => t.grant # 0
  BY DEF Honoured, AllGrants
<1>4. Entered(r)
  BY <1>1, <1>2, <1>3 DEF Entered
<1>5. r.draft # Garbled => Drafted(r)
  <2>1. r.draft # Garbled => r.draft = Saved(file, r.name, r.entry)
    OBVIOUS
  <2>2. r.name \in Names /\ IsEntry(r.entry, AllGrants) /\ r.entry.token.refresh <= issued
    BY <1>1, <1>2
  <2>3. \A x : /\ x.name \in Names /\ IsEntry(x.entry, AllGrants) /\ x.entry.token.refresh <= issued
               /\ x.draft = Saved(file, x.name, x.entry)
               => Drafted(x)
    BY <1>1, DraftIs
  <2> QED BY <2>1, <2>2, <2>3
<1>6. Good(r)
  BY <1>4, <1>5 DEF Good, Shaped
<1>7. Hand(proc[p]) = NoToken
  BY DEF At, Hand
<1> QED BY <1>6, <1>7, GoKeeps

LEMMA SaveKeyKeeps ==
  ASSUME Inv, NEW p \in Procs, NEW whole \in BOOLEAN, SaveKey(p, whole)
  PROVE  Inv'
<1> DEFINE r == [Off EXCEPT !.pc = "rename", !.name = KEYED, !.entry = Key,
                    !.draft = Written(Saved(file, KEYED, Key), whole)]
<1>1. /\ Shaped(r) /\ r.pc = "rename" /\ r.called = Unnamed /\ r.name = KEYED /\ r.entry = Key
      /\ r.draft = Written(Saved(file, KEYED, Key), whole)
  BY DEF Off, Shaped
<1>2. At(p, "off") /\ Go(p, r) /\ UNCHANGED << file, live, issued, lost >>
  BY DEF SaveKey
<1> HIDE DEF r
<1>3. r.draft \in {Garbled, Saved(file, KEYED, Key)}
  BY <1>1 DEF Written
<1>4. KEYED \in Names
  BY DEF Names
<1> QED BY <1>1, <1>2, <1>3, <1>4, FreshDraftKeeps

\* A file without names goes as a whole: with no file nothing can disagree.
LEMMA UnlinkKeeps ==
  ASSUME Inv, file' = Absent, UNCHANGED << proc, live, issued >>, Lose(Grants(file))
  PROVE  Inv'
<1>1. /\ Absent.form = "absent" /\ Absent.at = Blank /\ IsDoc(Absent, AllGrants)
      /\ \A n \in Members : Absent.at[n].token = NoToken
      /\ NoToken.grant = 0 /\ NoToken.refresh = 0
  BY DEF Absent, Doc, Blank, IsDoc, IsEntry, NoEntry, NoToken, Names, Members
<1>2. FileInv'
  BY <1>1 DEF Inv, FileInv, Old
<1>3. \A t : t = NoToken => ~Honoured(t)'
  BY <1>1 DEF Honoured, AllGrants
<1>4. \A q \in Procs : Good(proc[q])'
  <2>1. SUFFICES ASSUME NEW q \in Procs PROVE Good(proc[q])'
    OBVIOUS
  <2>2. Good(proc[q])
    BY DEF Inv, ProcInv
  <2>3. Names \subseteq Members /\ Unnamed \in Members
    BY DEF Members
  <2>4. Entered(proc[q]) => Entered(proc[q])'
    <3>1. Entered(proc[q]) => /\ ~Honoured(file.at[proc[q].name].token)'
                              /\ ~Honoured(file.at[Unnamed].token)'
      BY <1>1, <1>3, <2>3 DEF Entered
    <3> QED BY <3>1 DEF Entered
  <2>5. Drafted(proc[q]) => Drafted(proc[q])'
    <3>1. \A n \in Names : ~Honoured(file.at[n].token)'
      BY <1>1, <1>3, <2>3
    <3> QED BY <3>1 DEF Drafted, Old
  <2> QED BY <2>2, <2>4, <2>5 DEF Good
<1>5. NotMislaid'
  <2>1. SUFFICES ASSUME NEW g \in AllGrants, live[g] # 0, g \notin lost'
                 PROVE  Held(g)'
    BY DEF NotMislaid, AllGrants
  <2> DEFINE t == [grant |-> g, refresh |-> live[g]]
  <2>2. Held(g) /\ g # 0
    BY <2>1 DEF Inv, NotMislaid, Lose, AllGrants
  <2>3. CASE \E q \in Procs : InHand(q) = t
    BY <2>3 DEF Held, InHand
  <2>4. CASE t \in Tokens(file)
    <3>1. g \in Grants(file)
      BY <2>4 DEF Grants
    <3> QED BY <2>1, <2>2, <3>1 DEF Lose
  <2> QED BY <2>2, <2>3, <2>4 DEF Held
<1> QED BY <1>2, <1>4, <1>5 DEF Inv, ProcInv

LEMMA SignOutKeeps ==
  ASSUME Inv, NEW p \in Procs, NEW whole \in BOOLEAN, SignOut(p, whole)
  PROVE  Inv'
<1>1. CASE file.form = "named"
  <2> DEFINE r == [Off EXCEPT !.pc = "rename", !.name = CODEX,
                               !.draft = Written(Removed(file, CODEX), whole)]
  <2>1. /\ Shaped(r) /\ r.pc = "rename" /\ r.called = Unnamed /\ r.name = CODEX /\ r.entry = NoEntry
        /\ r.draft = Written(Removed(file, CODEX), whole)
    BY DEF Off, Shaped
  <2>2. At(p, "off") /\ Go(p, r) /\ UNCHANGED << file, live, issued, lost >>
    BY <1>1 DEF SignOut
  <2> HIDE DEF r
  <2>3. Removed(file, CODEX) = Saved(file, CODEX, NoEntry)
    <3> DEFINE c == Copied(file, CODEX)
    <3>1. c = [n \in Members |-> c[n]] /\ c[CODEX] = NoEntry
      BY DEF Copied, Blank, Members, Names
    <3> HIDE DEF c
    <3>2. [c EXCEPT ![CODEX] = NoEntry] = c
      BY <3>1
    <3> QED BY <3>2 DEF c, Removed, Saved
  <2>4. r.draft \in {Garbled, Saved(file, CODEX, NoEntry)}
    BY <2>1, <2>3 DEF Written
  <2>5. CODEX \in Names
    BY DEF Names
  <2> QED BY <2>1, <2>2, <2>4, <2>5, FreshDraftKeeps
<1>2. CASE file.form # "named"
  BY <1>2, UnlinkKeeps DEF SignOut
<1> QED BY <1>1, <1>2

-----------------------------------------------------------------------------
(* The server issues a token: its number is above every other, so what held *)
(* of the tokens it honoured before holds of those it honours now.          *)

LEMMA IssueKeeps ==
  ASSUME Inv, NEW p \in Procs, NEW r, NEW g \in AllGrants, Go(p, r), Hand(proc[p]) = NoToken,
         file' = file, live' = [live EXCEPT ![g] = issued + 1], issued' = issued + 1,
         \/ /\ r.pc = "save" /\ r.entry = Login([grant |-> g, refresh |-> issued + 1])
            /\ Shaped(r) /\ r.name \in Names /\ r.called \in Names \cup {Unnamed} /\ lost' = lost
         \/ Good(r) /\ r.pc \in {"off", "idle"} /\ Lose({g})
  PROVE  Inv'
<1>1. FileInv /\ ProcInv /\ NotMislaid /\ IsDoc(file, AllGrants) /\ Old(file) /\ issued \in Nat
  BY DEF Inv, FileInv
<1>2. Names \subseteq Members /\ Unnamed \in Members /\ Members = Names \cup {Unnamed}
  BY DEF Members
<1>3. live' \in [AllGrants -> Nat] /\ \A h \in AllGrants : live'[h] <= issued'
  BY <1>1 DEF FileInv
<1>4. \A e : IsEntry(e, AllGrants) => e.token.refresh \in Nat
  BY DEF IsEntry, NoEntry, Key, NoToken
<1>5. \A n \in Members : file.at[n].token.refresh \in Nat /\ file.at[n].token.refresh <= issued
  BY <1>1, <1>4 DEF IsDoc, Old
<1>6. FileInv'
  <2>1. Old(file)'
    BY <1>1, <1>5 DEF Old
  <2> QED BY <1>1, <1>3, <2>1 DEF FileInv
<1>7. \A n \in Members :
        Honoured(file.at[n].token)' => Honoured(file.at[n].token) /\ file.at[n].token.grant # g
  BY <1>1, <1>5 DEF Honoured, FileInv
<1>8. ASSUME NEW x, Good(x) PROVE Good(x)'
  <2>1. ASSUME Entered(x) PROVE Entered(x)'
    <3>1. x.entry.token.refresh \in Nat /\ x.entry.token.refresh <= issued'
      BY <1>1, <1>4, <2>1 DEF Entered
    <3>2. /\ Honoured(file.at[x.name].token)' => Honoured(file.at[x.name].token)
          /\ Honoured(file.at[Unnamed].token)' => Honoured(file.at[Unnamed].token)
      BY <1>2, <1>7, <2>1 DEF Entered
    <3> QED BY <2>1, <3>1, <3>2 DEF Entered, Agrees
  <2>2. ASSUME Drafted(x) PROVE Drafted(x)'
    <3>1. \A n \in Members : x.draft.at[n].token.refresh \in Nat
      BY <1>4, <2>2 DEF Drafted, IsDoc
    <3>2. Old(x.draft)'
      BY <1>1, <2>2, <3>1 DEF Drafted, Old
    <3>3. \A n \in Names : Honoured(file.at[n].token)' => Honoured(file.at[n].token)
      BY <1>2, <1>7
    <3> QED BY <2>2, <3>2, <3>3 DEF Drafted, Agrees
  <2> QED BY <1>8, <2>1, <2>2 DEF Good
<1> DEFINE new == [grant |-> g, refresh |-> issued + 1]
<1>9. ASSUME r.pc = "save", r.entry = Login(new), Shaped(r), r.name \in Names,
             r.called \in Names \cup {Unnamed}
      PROVE  Good(r)'
  <2>1. new \in [grant : AllGrants, refresh : Nat] /\ new.grant = g /\ new.refresh = issued'
    BY <1>1
  <2> HIDE DEF new
  <2>2. r.entry.kind = "oauth" /\ r.entry.token = new /\ IsEntry(r.entry, AllGrants)
    BY <1>9, <2>1 DEF IsEntry, Login
  <2>3. r.entry.token.refresh <= issued' /\ r.entry.token.grant = g
    BY <1>1, <2>1, <2>2
  <2>4. /\ ~(Honoured(file.at[r.name].token)' /\ file.at[r.name].token.grant = r.entry.token.grant)
        /\ ~(Honoured(file.at[Unnamed].token)' /\ file.at[Unnamed].token.grant = r.entry.token.grant)
    BY <1>2, <1>7, <1>9, <2>3
  <2>5. Entered(r)'
    BY <1>9, <2>2, <2>3, <2>4 DEF Entered
  <2> QED BY <1>9, <2>5 DEF Good
<1>10. DOMAIN proc' = Procs /\ proc'[p] = r /\ \A q \in Procs \ {p} : proc'[q] = proc[q]
  BY <1>1, GoIs DEF ProcInv
<1>11. ProcInv'
  <2>1. Good(r)'
    BY <1>8, <1>9
  <2>2. \A q \in Procs \ {p} : Good(proc[q])'
    <3>1. SUFFICES ASSUME NEW q \in Procs \ {p} PROVE Good(proc[q])'
      OBVIOUS
    <3>2. Good(proc[q]) /\ proc'[q] = proc[q]
      BY <1>1, <1>10 DEF ProcInv
    <3>3. PICK x : x = proc[q]
      OBVIOUS
    <3>4. Good(x)'
      BY <1>8, <3>2, <3>3
    <3>5. proc'[q] = x
      BY <3>2, <3>3
    <3> QED BY <3>4, <3>5 DEF Good, Entered, Drafted, Agrees, Honoured, Old
  <2>3. Good(proc[p])'
    BY <1>10, <2>1 DEF Good, Entered, Drafted, Agrees, Honoured, Old
  <2> QED BY <1>10, <2>2, <2>3 DEF ProcInv
<1>12. NotMislaid'
  <2>1. SUFFICES ASSUME NEW h \in AllGrants, live'[h] # 0, h \notin lost'
                 PROVE  Held(h)'
    BY DEF NotMislaid, AllGrants
  <2>2. lost \subseteq lost'
    BY DEF Lose
  <2>3. CASE h # g
    <3> DEFINE t == [grant |-> h, refresh |-> live[h]]
    <3>1. live'[h] = live[h]
      BY <1>1, <2>3 DEF FileInv
    <3>2. Held(h) /\ h # 0
      BY <1>1, <2>1, <2>2, <3>1 DEF NotMislaid, AllGrants
    <3>3. CASE t \in Tokens(file)
      BY <3>1, <3>3 DEF Held
    <3>4. CASE \E q \in Procs : InHand(q) = t
      <4>1. PICK q \in Procs : InHand(q) = t
        BY <3>4
      <4>2. q # p
        BY <3>2, <4>1 DEF InHand, Hand, NoToken
      <4>3. InHand(q)' = t
        BY <1>10, <4>1, <4>2 DEF InHand
      <4> QED BY <3>1, <4>3 DEF Held
    <3> QED BY <3>2, <3>3, <3>4 DEF Held
  <2>4. CASE h = g
    <3>1. live'[h] = issued + 1 /\ h # 0
      BY <1>1, <2>4 DEF FileInv, AllGrants
    <3>2. CASE r.pc = "save" /\ r.entry = Login(new)
      <4>1. InHand(p)' = new
        BY <1>10, <3>2 DEF InHand, Login
      <4> QED BY <2>4, <3>1, <4>1 DEF Held
    <3>3. CASE Lose({g})
      BY <2>1, <2>4, <3>1, <3>3 DEF Lose
    <3> QED BY <3>2, <3>3
  <2> QED BY <2>3, <2>4
<1> QED BY <1>6, <1>11, <1>12 DEF Inv

\* A token is what its two fields say.
LEMMA TokenIs ==
  ASSUME NEW e, IsEntry(e, AllGrants), e.kind = "oauth"
  PROVE  /\ e.token \in [grant : AllGrants, refresh : Nat] /\ e = Login(e.token)
         /\ \A n \in Nat : Parsed(e.token, n) = IF n = 0 THEN e.token
                                               ELSE [grant |-> e.token.grant, refresh |-> n]
<1>1. e.token \in [grant : AllGrants, refresh : Nat] /\ e = Login(e.token)
  BY DEF IsEntry, NoEntry, Key
<1>2. \A t \in [grant : AllGrants, refresh : Nat], n \in Nat :
        [t EXCEPT !.refresh = n] = [grant |-> t.grant, refresh |-> n]
  OBVIOUS
<1> QED BY <1>1, <1>2 DEF Parsed

LEMMA RefreshKeeps ==
  ASSUME Inv, NEW p \in Procs, NEW rotate \in BOOLEAN, NEW heard \in BOOLEAN,
         Refresh(p, rotate, heard)
  PROVE  Inv'
<1> DEFINE t == proc[p].entry.token
           g == t.grant
           n == issued + 1
           r == [proc[p] EXCEPT !.pc = "save", !.entry = Login(Parsed(t, IF rotate THEN n ELSE 0))]
<1>1. Good(proc[p]) /\ FileInv /\ proc[p].pc = "post" /\ issued \in Nat
  BY DEF Inv, ProcInv, FileInv, Refresh, At
<1>2. Entered(proc[p]) /\ Shaped(proc[p]) /\ proc[p].called \in Names /\ Hand(proc[p]) = NoToken
  BY <1>1 DEF Good, Reading, Hand
<1>3. /\ IsEntry(proc[p].entry, AllGrants) /\ proc[p].entry.kind = "oauth" /\ proc[p].name \in Names
  BY <1>1, <1>2 DEF Entered
<1>4. /\ t \in [grant : AllGrants, refresh : Nat] /\ proc[p].entry = Login(t)
      /\ \A k \in Nat : Parsed(t, k) = IF k = 0 THEN t ELSE [grant |-> t.grant, refresh |-> k]
  BY <1>3, TokenIs
<1>5. Good(Idle(p)) /\ Idle(p).pc = "idle" /\ Hand(Idle(p)) = NoToken
  BY <1>1, <1>2 DEF Good, Shaped, Idle, Off, Reading, Hand
<1>6. /\ Shaped(r) /\ r.pc = "save" /\ r.name = proc[p].name /\ r.called = proc[p].called
      /\ r.entry = Login(Parsed(t, IF rotate THEN n ELSE 0))
      /\ r.unread = proc[p].unread
  BY <1>2 DEF Shaped, Off
<1>7. /\ IF rotate THEN live' = [live EXCEPT ![g] = n] /\ issued' = n
                   ELSE live' = live /\ issued' = issued
      /\ file' = file /\ g \in AllGrants
      /\ IF heard THEN Go(p, r) ELSE Go(p, Idle(p))
      /\ Lose(IF heard THEN {} ELSE {g})
  BY <1>4 DEF Refresh
<1>8. heard => lost' = lost
  BY <1>7 DEF Lose
<1> HIDE DEF r
<1>9. CASE rotate /\ heard
  <2>1. r.entry = Login([grant |-> g, refresh |-> issued + 1])
    BY <1>1, <1>4, <1>6, <1>9
  <2> QED BY <1>2, <1>3, <1>6, <1>7, <1>8, <1>9, <2>1, IssueKeeps
<1>10. CASE rotate /\ ~heard
  BY <1>2, <1>5, <1>7, <1>10, IssueKeeps
<1>11. CASE ~rotate /\ heard
  <2>1. r.entry = proc[p].entry
    BY <1>4, <1>6, <1>11
  <2>2. Entered(r)
    BY <1>2, <1>3, <1>6, <2>1 DEF Entered, Agrees
  <2>3. Good(r)
    BY <1>2, <1>3, <1>6, <2>2 DEF Good
  <2> QED BY <1>2, <1>7, <1>8, <1>11, <2>3, GoKeeps
<1>12. CASE ~rotate /\ ~heard
  BY <1>5, <1>7, <1>12, GoKeeps
<1> QED BY <1>9, <1>10, <1>11, <1>12

LEMMA ExchangeKeeps ==
  ASSUME Inv, NEW p \in Procs, NEW heard \in BOOLEAN, Exchange(p, heard)
  PROVE  Inv'
<1> DEFINE g == CHOOSE g \in 1..MaxGrants : live[g] = 0
           r == [proc[p] EXCEPT !.pc = "save", !.entry = Login([grant |-> g, refresh |-> issued + 1])]
<1>1. Good(proc[p]) /\ proc[p].pc = "exchange"
  BY DEF Inv, ProcInv, Exchange, At
<1>2. Shaped(proc[p]) /\ proc[p].called \in Names \cup {Unnamed} /\ proc[p].name \in Names
      /\ Hand(proc[p]) = NoToken
  BY <1>1 DEF Good, Hand
<1>3. g \in AllGrants
  BY DEF Exchange, AllGrants
<1>4. Good(Off) /\ Off.pc = "off"
  BY DEF Good, Shaped, Off, Reading
<1>5. /\ Shaped(r) /\ r.pc = "save" /\ r.name = proc[p].name /\ r.called = proc[p].called
      /\ r.entry = Login([grant |-> g, refresh |-> issued + 1])
  BY <1>2 DEF Shaped, Off
<1>6. /\ live' = [live EXCEPT ![g] = issued + 1] /\ issued' = issued + 1 /\ file' = file
      /\ Go(p, IF heard THEN r ELSE Off)
      /\ Lose(IF heard THEN {} ELSE {g})
  BY DEF Exchange
<1> HIDE DEF g, r
<1>7. CASE heard
  <2>1. lost' = lost
    BY <1>6, <1>7 DEF Lose
  <2> QED BY <1>2, <1>3, <1>5, <1>6, <1>7, <2>1, IssueKeeps
<1>8. CASE ~heard
  BY <1>2, <1>3, <1>4, <1>6, <1>8, IssueKeeps
<1> QED BY <1>7, <1>8

-----------------------------------------------------------------------------
(* The rename. *)

\* Of the others, who reads learns which grants it moved; who does not read
\* depends on the file in nothing.
LEMMA OthersAfterInstall ==
  ASSUME Inv, NEW p \in Procs, Install(p), Drafted(proc[p]), NEW q \in Procs \ {p}
  PROVE  Good(proc[q])'
<1> DEFINE d == proc[p].draft
           after == [proc[q] EXCEPT !.unread = @ \cup Moved(file, file')]
<1>1. Good(proc[q]) /\ DOMAIN proc = Procs /\ file' = d /\ UNCHANGED << live, issued >>
  BY DEF Inv, ProcInv, Install
<1>2. d.form = "named"
  BY DEF Drafted
<1>3. proc'[q] = IF Reads(q) THEN after ELSE proc[q]
  BY DEF Install
<1>4. CASE ~Reads(q)
  <2>1. proc'[q] = proc[q] /\ proc[q].pc \notin Reading
    BY <1>3, <1>4 DEF Reads, Reading
  <2> QED BY <1>1, <2>1 DEF Good, Reading
<1>5. CASE Reads(q)
  <2>1. proc[q].pc \in Reading /\ Entered(proc[q]) /\ Shaped(proc[q])
    BY <1>1, <1>5 DEF Good, Reads, Reading
  <2>2. PICK r :
        /\ proc'[q] = r
        /\ r.pc = proc[q].pc /\ r.name = proc[q].name /\ r.called = proc[q].called
        /\ r.entry = proc[q].entry /\ r.draft = proc[q].draft /\ r.code = proc[q].code
        /\ r.verifier = proc[q].verifier /\ Shaped(r)
        /\ r.unread = proc[q].unread \cup Moved(file, d)
    <3>1. /\ after.pc = proc[q].pc /\ after.name = proc[q].name /\ after.called = proc[q].called
          /\ after.entry = proc[q].entry /\ after.draft = proc[q].draft /\ after.code = proc[q].code
          /\ after.verifier = proc[q].verifier /\ Shaped(after)
          /\ after.unread = proc[q].unread \cup Moved(file, d)
      BY <1>1, <2>1 DEF Shaped, Off
    <3> HIDE DEF after
    <3> QED BY <1>3, <1>5, <3>1
  <2>3. \A n \in Names : Honoured(d.at[n].token) =>
          \/ d.at[n] = file.at[n]
          \/ d.at[n].token.grant \in r.unread
    <3>1. SUFFICES ASSUME NEW n \in Names, Honoured(d.at[n].token), d.at[n] # file.at[n]
                   PROVE  d.at[n].token.grant \in Moved(file, d)
      BY <2>2
    <3>2. d.at[n].token.grant # 0
      BY <3>1 DEF Honoured, AllGrants
    <3> QED BY <3>1, <3>2 DEF Moved
  <2>4. Entered(r)'
    <3>1. Honoured(d.at[r.name].token) /\ d.at[r.name].token.grant = r.entry.token.grant
            => r.entry.token = d.at[r.name].token \/ d.at[r.name].token.grant \in r.unread
      BY <2>1, <2>2, <2>3 DEF Entered, Agrees
    <3> QED BY <1>1, <1>2, <2>1, <2>2, <3>1 DEF Entered, Agrees, Honoured
  <2>5. Drafted(proc[q]) => Drafted(r)'
    <3>1. SUFFICES ASSUME Drafted(proc[q]) PROVE Drafted(r)'
      OBVIOUS
    <3>2. \A n \in Names \ {r.name} : Honoured(d.at[n].token)
            => r.draft.at[n].token = d.at[n].token \/ d.at[n].token.grant \in r.unread
      BY <2>2, <2>3, <3>1 DEF Drafted, Agrees
    <3> QED BY <1>1, <2>2, <3>1, <3>2 DEF Drafted, Agrees, Honoured, Old
  <2>6. Good(r)'
    BY <1>1, <2>1, <2>2, <2>4, <2>5 DEF Good
  <2> QED BY <2>2, <2>6 DEF Good, Entered, Drafted, Agrees, Honoured, Old
<1> QED BY <1>4, <1>5

\* A token the server honours that was in the file is in the draft, or the
\* rename has a reason to drop its grant.
LEMMA InstallHolds ==
  ASSUME Inv, NEW p \in Procs, Install(p), Drafted(proc[p]), Entered(proc[p]),
         NEW g \in AllGrants, live[g] # 0, g \notin lost'
  PROVE  Held(g)'
<1> DEFINE d == proc[p].draft
           x == [grant |-> g, refresh |-> live[g]]
           e == proc[p].entry
           name == proc[p].name
           gs == proc[p].unread \cup
                   ((IF file.form = "named" THEN {file.at[name].token.grant} ELSE Grants(file))
                     \ {e.token.grant})
<1>1. file' = d /\ live' = live /\ DOMAIN proc = Procs /\ Lose(gs)
  BY DEF Install, Inv, ProcInv
<1>2. g # 0 /\ x # NoToken /\ Honoured(x) /\ x.grant = g
  BY DEF NoToken, AllGrants, Honoured
<1>3. IsDoc(file, AllGrants) /\ IsDoc(d, AllGrants) /\ name \in Names
      /\ Names \subseteq Members /\ Members = Names \cup {Unnamed}
  BY DEF Inv, FileInv, Drafted, Entered, Members
<1>4. Held(g)
  BY <1>1 DEF Inv, NotMislaid, Lose, AllGrants
<1>5. g \in gs => Held(g)'
  BY <1>1, <1>2 DEF Lose
<1> HIDE DEF x
<1>6. \A n \in Names : d.at[n].token = x => Held(g)'
  <2>1. SUFFICES ASSUME NEW n \in Names, d.at[n].token = x PROVE x \in Tokens(file)'
    BY <1>1 DEF Held, x
  <2>2. n \in DOMAIN d.at
    BY <1>3 DEF IsDoc
  <2> QED BY <1>1, <1>2, <2>1, <2>2 DEF Tokens
<1>7. d.at[name] = e
  BY DEF Drafted
<1>8. CASE \E q \in Procs : InHand(q) = x
  <2>1. PICK q \in Procs : InHand(q) = x
    BY <1>8
  <2>2. CASE q = p
    <3>1. e.token = x
      BY <1>2, <2>1, <2>2 DEF InHand
    <3> QED BY <1>3, <1>6, <1>7, <3>1
  <2>3. CASE q # p
    <3>1. /\ proc'[q] = IF Reads(q) THEN [proc[q] EXCEPT !.unread = @ \cup Moved(file, file')] ELSE proc[q]
          /\ Shaped(proc[q])
      BY <2>3 DEF Install, Inv, ProcInv, Good
    <3>2. proc'[q].pc = proc[q].pc /\ proc'[q].entry = proc[q].entry
      BY <3>1 DEF Shaped, Off
    <3>3. InHand(q)' = x
      BY <2>1, <3>2 DEF InHand
    <3> QED BY <1>1, <3>3 DEF Held, x
  <2> QED BY <2>2, <2>3
<1>9. CASE x \in Tokens(file)
  <2>1. PICK n \in Members : x = file.at[n].token
    BY <1>3, <1>9 DEF Tokens, IsDoc
  <2>2. g \in Grants(file)
    BY <1>2, <1>9 DEF Grants
  <2>3. CASE file.form # "named"
    <3>1. n = Unnamed
      BY <1>2, <1>3, <2>1, <2>3 DEF IsDoc, NoEntry
    <3>2. g = e.token.grant => e.token = x
      BY <1>2, <2>1, <2>3, <3>1 DEF Entered
    <3> QED BY <1>3, <1>5, <1>6, <1>7, <2>2, <2>3, <3>2
  <2>4. CASE file.form = "named" /\ n = name
    <3>1. g = e.token.grant => e.token = x \/ g \in proc[p].unread
      BY <1>2, <2>1, <2>4 DEF Entered, Agrees
    <3>2. g # e.token.grant => g \in gs
      BY <1>2, <2>1, <2>4
    <3> QED BY <1>3, <1>5, <1>6, <1>7, <3>1, <3>2
  <2>5. CASE file.form = "named" /\ n # name
    <3>1. n \in Names
      BY <1>2, <1>3, <2>1, <2>5 DEF IsDoc, NoEntry
    <3>2. d.at[n].token = x \/ g \in proc[p].unread
      BY <1>2, <2>1, <2>5, <3>1 DEF Drafted, Agrees
    <3> QED BY <1>5, <1>6, <3>1, <3>2
  <2> QED BY <2>3, <2>4, <2>5
<1> QED BY <1>4, <1>8, <1>9 DEF Held, x

LEMMA InstallKeeps ==
  ASSUME Inv, NEW p \in Procs, Install(p)
  PROVE  Inv'
<1>1. Good(proc[p]) /\ FileInv /\ DOMAIN proc = Procs
  BY DEF Inv, ProcInv
<1>2. Entered(proc[p]) /\ Drafted(proc[p])
  BY <1>1 DEF Good, Reading, Install, At, WholeDraft
<1>3. file' = proc[p].draft /\ UNCHANGED << live, issued >>
  BY DEF Install
<1>4. FileInv'
  BY <1>1, <1>2, <1>3 DEF FileInv, Drafted, Old
<1>5. proc'[p] = Ended(p) /\ DOMAIN proc' = Procs
  BY DEF Install
<1>6. Shaped(Ended(p)) /\ Ended(p).called \in Names \cup {Unnamed} /\ Ended(p).pc \in {"off", "idle"}
      /\ (Ended(p).pc = "idle" => Ended(p).name \in Names /\ Ended(p).called \in Names)
  BY <1>1 DEF Good, Shaped, Ended, Idle, Off
<1>7. Good(proc[p])'
  BY <1>5, <1>6 DEF Good, Reading
<1>8. ProcInv'
  BY <1>2, <1>5, <1>7, OthersAfterInstall DEF ProcInv
<1>9. NotMislaid'
  <2>1. SUFFICES ASSUME NEW g \in AllGrants, live'[g] # 0, g \notin lost'
                 PROVE  Held(g)'
    BY DEF NotMislaid, AllGrants
  <2> QED BY <1>2, <1>3, <2>1, InstallHolds
<1> QED BY <1>4, <1>8, <1>9 DEF Inv

-----------------------------------------------------------------------------
LEMMA InitInv == Init => Inv
<1>1. SUFFICES ASSUME Init PROVE Inv
  OBVIOUS
<1>2. /\ IsDoc(file, AllGrants) /\ file.form # "garbled"
      /\ \A t \in Tokens(file) : t.refresh = 1
  BY <1>1, FilesAssumption DEF Init, AllGrants
<1>3. issued = 1 /\ live \in [AllGrants -> Nat] /\ \A g \in AllGrants : live[g] <= issued
  BY <1>1 DEF Init, AllGrants
<1>4. Old(file)
  <2>1. SUFFICES ASSUME NEW n \in Members PROVE file.at[n].token.refresh <= 1
    BY <1>3 DEF Old
  <2>2. CASE file.at[n].token = NoToken
    BY <2>2 DEF NoToken
  <2>3. CASE file.at[n].token # NoToken
    <3>1. file.at[n].token \in Tokens(file)
      BY <1>2, <2>3 DEF Tokens, IsDoc
    <3>2. file.at[n].token.refresh = 1
      BY <1>2, <3>1
    <3> QED BY <3>2
  <2> QED BY <2>2, <2>3
<1>5. ProcInv
  <2>1. DOMAIN proc = Procs /\ \A p \in Procs : proc[p] = Off
    BY <1>1 DEF Init
  <2>2. Good(Off)
    BY DEF Good, Shaped, Off, Reading
  <2> QED BY <2>1, <2>2 DEF ProcInv
<1>6. NotMislaid
  <2>1. SUFFICES ASSUME NEW g \in AllGrants, live[g] # 0 PROVE Held(g)
    BY DEF NotMislaid, AllGrants
  <2>2. g \in Grants(file) /\ live[g] = 1
    BY <1>1, <2>1 DEF Init, AllGrants
  <2>3. PICK t \in Tokens(file) : t.grant = g
    BY <2>2 DEF Grants
  <2>4. t.refresh = 1
    BY <1>2, <2>3
  <2>5. PICK n \in Members : t = file.at[n].token
    BY <1>2, <2>3 DEF Tokens, IsDoc
  <2>6. IsEntry(file.at[n], AllGrants) /\ t # NoToken
    BY <1>2, <2>3, <2>5 DEF IsDoc, Tokens
  <2>7. t \in [grant : AllGrants, refresh : Nat]
    BY <2>5, <2>6 DEF IsEntry, NoEntry, Key
  <2>8. t = [grant |-> g, refresh |-> live[g]]
    BY <2>2, <2>3, <2>4, <2>7
  <2> QED BY <2>3, <2>8 DEF Held
<1> QED BY <1>2, <1>3, <1>4, <1>5, <1>6 DEF Inv, FileInv

LEMMA NextKeeps == Inv /\ [Next]_vars => Inv'
<1>1. SUFFICES ASSUME Inv, [Next]_vars PROVE Inv'
  OBVIOUS
<1>2. ASSUME NEW p \in Procs, NEW name \in {CHATGPT, CODEX}, Start(p, name) PROVE Inv'
  BY <1>1, <1>2, ProviderKeeps
<1>3. ASSUME NEW p \in Procs, NEW port \in Ports, Browser(p, port) PROVE Inv'
  BY <1>1, <1>3, SignInKeeps
<1>4. ASSUME NEW p \in Procs, NEW expiring \in BOOLEAN, Prepare(p, expiring) PROVE Inv'
  BY <1>1, <1>4, ProviderKeeps
<1>5. ASSUME NEW p \in Procs, NEW rotate \in BOOLEAN, NEW heard \in BOOLEAN, Refresh(p, rotate, heard)
      PROVE  Inv'
  BY <1>1, <1>5, RefreshKeeps
<1>6. ASSUME NEW p \in Procs, Refused(p) PROVE Inv'
  BY <1>1, <1>6, ProviderKeeps
<1>7. ASSUME NEW p \in Procs, Install(p) PROVE Inv'
  BY <1>1, <1>7, InstallKeeps
<1>8. ASSUME NEW p \in Procs, Discard(p) \/ Crash(p) PROVE Inv'
  BY <1>1, <1>8, EndKeeps
<1>9. ASSUME NEW p \in Procs, NEW a \in asked, Callback(p, a) PROVE Inv'
  BY <1>1, <1>9, SignInKeeps
<1>10. ASSUME NEW p \in Procs, NEW whole \in BOOLEAN,
              SaveRead(p, whole) \/ SaveKey(p, whole) \/ SignOut(p, whole)
       PROVE  Inv'
  BY <1>1, <1>10, SaveReadKeeps, SaveKeyKeeps, SignOutKeeps
<1>11. ASSUME NEW p \in Procs, Device(p) \/ Approved(p) \/ GiveUp(p) PROVE Inv'
  BY <1>1, <1>11, SignInKeeps
<1>12. ASSUME NEW p \in Procs, NEW heard \in BOOLEAN, Exchange(p, heard) PROVE Inv'
  BY <1>1, <1>12, ExchangeKeeps
<1>13. CASE UNCHANGED vars
  BY <1>1, <1>13 DEF vars, Inv, FileInv, ProcInv, NotMislaid, Held, InHand, Good, Entered, Drafted,
                    Agrees, Honoured, Old
<1>14. CASE Next
  BY <1>2, <1>3, <1>4, <1>5, <1>6, <1>7, <1>8, <1>9, <1>10, <1>11, <1>12, <1>14 DEF Next
<1> QED BY <1>1, <1>13, <1>14

\* What every process has read, drafted or been issued fits the file, whoever
\* else renamed one of his own over it meanwhile (oauth.c: save_token).
THEOREM Invariance == Spec => []Inv
<1> QED BY InitInv, NextKeeps, PTL DEF Spec

\* No login the server honours is mislaid and auth.json is never half a
\* document, however many processes rebuild it at once (oauth.c: write_auth_json).
THEOREM Kept == Spec => []LoginsKept
<1>1. Inv => LoginsKept
  BY DEF Inv, FileInv, LoginsKept, NeverTorn
<1> QED BY <1>1, Invariance, PTL

\* A code is exchanged with the verifier it was issued for, whatever redirects
\* of other sign-ins reach the port (oauth.c: wait_for_callback).
THEOREM OwnCode == Spec => []CodeMatches
<1>1. Inv => CodeMatches
  BY DEF Inv, ProcInv, Good, CodeMatches, At
<1> QED BY <1>1, Invariance, PTL
===========================================================================
