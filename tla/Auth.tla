------------------------------- MODULE Auth -------------------------------
(***************************************************************************)
(* The processes that share one auth.json: the providers of an agent, of   *)
(* its sub-agents and of other sessions, which refresh their login before  *)
(* a request, and those that sign in, store a key or sign out              *)
(* (auth/oauth.c, model/provider.c).  Nobody locks the file: a writer      *)
(* reads it, rebuilds it, writes a file of its own and renames it.         *)
(*                                                                         *)
(* The authorization server and the browser are external: a grant is what  *)
(* the server issues for one sign-in, live[g] the only refresh token of g  *)
(* it still takes (0: none).                                               *)
(***************************************************************************)
EXTENDS AuthFile, FiniteSets

CONSTANTS
  Procs,     \* processes
  Initially, \* what auth.json may hold at first
  MaxAsked,  \* bound: browser sign-ins that began
  MaxGrants, \* bound: grants, with the one the files may start with
  MaxTokens  \* bound: refresh tokens of all grants

\* What a file may hold before the first process runs: it is a document, and
\* its logins have their first refresh token.
ASSUME FilesAssumption ==
  \A d \in Initially :
    /\ IsDoc(d, 1 .. MaxGrants) /\ d.form # "garbled"
    /\ \A t \in Tokens(d) : t.refresh = 1

VARIABLES
  file,   \* auth.json
  proc,   \* each process, see Off
  live,   \* the refresh token of each grant the server takes
  issued, \* the number of the last refresh token
  asked,  \* authorizations opened in a browser: [attempt, port]
  lost    \* history: grants whose token was dropped with a reason, see Lose

vars == << file, proc, live, issued, asked, lost >>

Ports == {1455, 1457}

Off == [pc |-> "off",
        name |-> Unnamed, called |-> Unnamed, \* provider_name, now and as configured
        entry |-> NoEntry,          \* the login or the key to save
        draft |-> Absent,           \* the document to install
        port |-> 0, verifier |-> 0, \* of a browser sign-in
        code |-> 0,                 \* the authorization it got
        unread |-> {}]              \* history: grants others moved since it read the file

FirstLogin == [grant |-> 1, refresh |-> 1]

Init ==
  /\ file \in Initially
  /\ proc = [p \in Procs |-> Off]
  /\ live = [g \in 1..MaxGrants |-> IF g \in Grants(file) THEN 1 ELSE 0] /\ issued = 1
  /\ asked = {} /\ lost = {}

-----------------------------------------------------------------------------
(* What becomes of a grant. *)

InHand(p) == IF proc[p].pc \in {"save", "rename"} THEN proc[p].entry.token ELSE NoToken

\* The live token of g is in a file, or in a process on its way there.
Held(g) ==
  [grant |-> g, refresh |-> live[g]] \in
    Tokens(file) \cup {InHand(p) : p \in Procs}

\* A step that has a reason to drop the grants gs has lost those nobody holds.
Lose(gs) == lost' = lost \cup {g \in gs \ {0} : ~Held(g)'}

-----------------------------------------------------------------------------
(* Providers. *)

At(p, pc) == proc[p].pc = pc
Go(p, r)  == proc' = [proc EXCEPT ![p] = r]

\* provider_prepare_auth ends, with a key or with an error.  The first call, from
\* provider_new_chatgpt, goes by the name chatgpt; provider_new_auth sets the
\* configured name after it.
Idle(p) == [Off EXCEPT !.pc = "idle", !.name = proc[p].called, !.called = proc[p].called]

Start(p, name) ==
  /\ At(p, "off")
  /\ Scheme(file, name) = "oauth"
  /\ Go(p, [Off EXCEPT !.pc = "new", !.name = CHATGPT, !.called = name])
  /\ UNCHANGED << file, live, issued, asked, lost >>

\* whether the access token has 300 seconds left is the clock's choice
Prepare(p, expiring) ==
  /\ proc[p].pc \in {"new", "idle"}
  /\ LET t == TokenOf(file, proc[p].name)
     IN IF t = NoToken \/ ~expiring
          THEN Go(p, Idle(p))
          ELSE Go(p, [proc[p] EXCEPT !.pc = "post", !.entry = Login(t)])
  /\ UNCHANGED << file, live, issued, asked, lost >>

\* parse_token_response: a reply without refresh token (0) leaves the old one
Parsed(old, refresh) == IF refresh = 0 THEN old ELSE [old EXCEPT !.refresh = refresh]

\* oauth_refresh_provider, answered: the server may rotate the refresh token,
\* and its answer may be lost or be no use.
Refresh(p, rotate, heard) ==
  LET t == proc[p].entry.token
      n == issued + 1
      new == Parsed(t, IF rotate THEN n ELSE 0)
  IN /\ At(p, "post")
     /\ live[t.grant] = t.refresh /\ (rotate => n <= MaxTokens)
     /\ live' = IF rotate THEN [live EXCEPT ![t.grant] = n] ELSE live
     /\ issued' = IF rotate THEN n ELSE issued
     /\ IF heard THEN Go(p, [proc[p] EXCEPT !.pc = "save", !.entry = Login(new)])
                 ELSE Go(p, Idle(p))
     /\ UNCHANGED << file, asked >>
     /\ Lose(IF heard THEN {} ELSE {t.grant})

\* oauth_refresh_provider, refused or not sent
Refused(p) ==
  /\ At(p, "post")
  /\ Go(p, Idle(p))
  /\ UNCHANGED << file, live, issued, asked, lost >>

-----------------------------------------------------------------------------
(* Saving. *)

Ended(p) == IF proc[p].called = Unnamed THEN Off ELSE Idle(p)

\* write_auth_json up to the rename: a disk that is full leaves half a file.
Written(doc, whole) == IF whole THEN doc ELSE Garbled

\* save_token, from its read to the file it writes.  What its own name stands
\* for is not read again.
SaveRead(p, whole) ==
  /\ At(p, "save")
  /\ Go(p, [proc[p] EXCEPT !.pc = "rename",
                         !.draft = Written(Saved(file, proc[p].name, proc[p].entry), whole),
                         !.unread = @ \cap {file.at[proc[p].name].token.grant}])
  /\ UNCHANGED << file, live, issued, asked, lost >>

\* auth_save_api_key, as far
SaveKey(p, whole) ==
  /\ At(p, "off")
  /\ Go(p, [Off EXCEPT !.pc = "rename", !.name = KEYED, !.entry = Key,
                    !.draft = Written(Saved(file, KEYED, Key), whole)])
  /\ UNCHANGED << file, live, issued, asked, lost >>

\* oauth_remove: the entry of openai-codex, or a file without names altogether
SignOut(p, whole) ==
  /\ At(p, "off")
  /\ UNCHANGED << live, issued, asked >>
  /\ IF file.form = "named"
       THEN /\ Go(p, [Off EXCEPT !.pc = "rename", !.name = CODEX,
                               !.draft = Written(Removed(file, CODEX), whole)])
            /\ UNCHANGED << file, lost >>
       ELSE /\ file.form # "absent" /\ file' = Absent
            /\ UNCHANGED proc
            /\ Lose(Grants(file))

\* The condition of the rename: everything written, synced and closed
WholeDraft(p) == proc[p].draft # Garbled

\* between its read and its rename
Reads(q) == proc[q].pc \in {"post", "save", "rename"}

\* the grants with a token under a name where it was not before
Moved(old, new) == {new.at[n].token.grant : n \in {m \in Names : new.at[m] # old.at[m]}} \ {0}

\* The rename.  It may drop the tokens others put there since the file was
\* read, what its own name stood for, and whatever had no name.
Install(p) ==
  /\ At(p, "rename") /\ WholeDraft(p)
  /\ file' = proc[p].draft
  /\ proc' = [q \in Procs |-> IF q = p THEN Ended(p)
                             ELSE IF Reads(q) THEN [proc[q] EXCEPT !.unread = @ \cup Moved(file, file')]
                             ELSE proc[q]]
  /\ UNCHANGED << live, issued, asked >>
  /\ Lose(proc[p].unread \cup
            ((IF file.form = "named" THEN {file.at[proc[p].name].token.grant} ELSE Grants(file))
             \ {proc[p].entry.token.grant}))

Discard(p) ==
  /\ At(p, "rename") /\ ~WholeDraft(p)
  /\ Go(p, Ended(p))
  /\ UNCHANGED << file, live, issued, asked >>
  /\ Lose({proc[p].entry.token.grant})

Crash(p) ==
  /\ ~At(p, "off")
  /\ Go(p, Off)
  /\ UNCHANGED << file, live, issued, asked >>
  /\ Lose({proc[p].entry.token.grant})

-----------------------------------------------------------------------------
(* Signing in. *)

Attempt == Cardinality(asked) + 1

Free(port) == \A q \in Procs : proc[q].port # port

\* browser_login up to the wait, on the first port nobody listens on
Browser(p, port) ==
  /\ At(p, "off") /\ Attempt <= MaxAsked
  /\ Free(port) /\ \A lower \in Ports : lower < port => ~Free(lower)
  /\ Go(p, [Off EXCEPT !.pc = "listen", !.name = CODEX, !.port = port, !.verifier = Attempt])
  /\ asked' = asked \cup {[attempt |-> Attempt, port |-> port]}
  /\ UNCHANGED << file, live, issued, lost >>

\* mutation: a callback of any sign-in will do
AnyState(p, a) == TRUE

\* wait_for_callback: the state of the redirect is the one of this sign-in
OwnState(p, a) == a.attempt = proc[p].verifier

\* The browser follows the redirect of an authorization, this sign-in's or an
\* older one's on the same port.
Callback(p, a) ==
  /\ At(p, "listen") /\ a.port = proc[p].port
  /\ IF OwnState(p, a) THEN Go(p, [proc[p] EXCEPT !.pc = "exchange", !.port = 0, !.code = a.attempt])
                       ELSE Go(p, Off)
  /\ UNCHANGED << file, live, issued, asked, lost >>

\* device_login: the code is typed elsewhere, no port and no redirect
Device(p) ==
  /\ At(p, "off")
  /\ Go(p, [Off EXCEPT !.pc = "poll", !.name = CODEX])
  /\ UNCHANGED << file, live, issued, asked, lost >>

Approved(p) ==
  /\ At(p, "poll")
  /\ Go(p, [proc[p] EXCEPT !.pc = "exchange", !.code = proc[p].verifier])
  /\ UNCHANGED << file, live, issued, asked, lost >>

\* Ten minutes are over, a stray request came, or the server said no.
GiveUp(p) ==
  /\ proc[p].pc \in {"listen", "poll", "exchange"}
  /\ Go(p, Off)
  /\ UNCHANGED << file, live, issued, asked, lost >>

\* exchange_code, granted; the answer may be lost or be no use
Exchange(p, heard) ==
  LET g == CHOOSE g \in 1..MaxGrants : live[g] = 0
      n == issued + 1
      new == [grant |-> g, refresh |-> n]
  IN /\ At(p, "exchange") /\ proc[p].code = proc[p].verifier
     /\ n <= MaxTokens /\ \E h \in 1..MaxGrants : live[h] = 0
     /\ live' = [live EXCEPT ![g] = n]
     /\ issued' = n
     /\ Go(p, IF heard THEN [proc[p] EXCEPT !.pc = "save", !.entry = Login(new)] ELSE Off)
     /\ UNCHANGED << file, asked >>
     /\ Lose(IF heard THEN {} ELSE {g})

-----------------------------------------------------------------------------
Next ==
  \/ \E p \in Procs, name \in {CHATGPT, CODEX} : Start(p, name)
  \/ \E p \in Procs, port \in Ports : Browser(p, port)
  \/ \E p \in Procs :
       \/ \E expiring \in BOOLEAN : Prepare(p, expiring)
       \/ \E rotate, heard \in BOOLEAN : Refresh(p, rotate, heard)
       \/ Refused(p) \/ Install(p) \/ Discard(p) \/ Crash(p)
       \/ \E a \in asked : Callback(p, a)
       \/ \E whole \in BOOLEAN : SaveRead(p, whole) \/ SaveKey(p, whole) \/ SignOut(p, whole)
       \/ Device(p) \/ Approved(p) \/ GiveUp(p)
       \/ \E heard \in BOOLEAN : Exchange(p, heard)

Spec == Init /\ [][Next]_vars

-----------------------------------------------------------------------------
(* Properties. *)

\* A login the server still honours is in a file or on its way there, unless a
\* crash, a full disk or a lost answer ate the token, a sign-in or a sign-out
\* replaced it, or a writer overwrote what it had not read: nobody who rebuilds
\* the file drops what he read, and a rotated token takes the place of the old.
NotMislaid == \A g \in 1..MaxGrants : live[g] = 0 \/ g \in lost \/ Held(g)

\* auth.json never becomes half a document, wherever a writer fails or dies.
NeverTorn == file.form # "garbled"

\* Both: what was saved can be read again.
LoginsKept == NotMislaid /\ NeverTorn

\* A code goes to the server only with the verifier it was issued for, though
\* redirects of older sign-ins still reach the port.
CodeMatches == \A p \in Procs : At(p, "exchange") => proc[p].code = proc[p].verifier

\* oauth.h:5-6: "The implementation stores them atomically with mode 0600 and
\* refreshes rotated refresh tokens in place."  No entry keeps a refresh token
\* another entry of the file has the successor of.
InPlace ==
  \A s, t \in Tokens(file) :
    s.grant = t.grant /\ t.refresh = live[t.grant] => s.refresh = t.refresh
=============================================================================
