----------------------------- MODULE AuthFile -----------------------------
(***************************************************************************)
(* auth.json as auth/oauth.c and model/provider.c read and rebuild it.     *)
(*                                                                         *)
(* A document has a form ("absent", "garbled": not JSON, "flat": one       *)
(* untyped login, "single": one object with a type, "named": an entry per  *)
(* provider) and the entry of each name; of a flat or single document the  *)
(* name is Unnamed.  An entry is a login (its token), a key, or nothing.   *)
(* A token is the grant it comes from and the number of its refresh token. *)
(***************************************************************************)
EXTENDS Naturals

CHATGPT == "chatgpt"
CODEX   == "openai-codex"
KEYED   == "opencode-go"  \* a provider with an API key
Names   == {CHATGPT, CODEX, KEYED}
Unnamed == "unnamed"
Members == Names \cup {Unnamed}

NoToken  == [grant |-> 0, refresh |-> 0]
NoEntry  == [kind |-> "none", token |-> NoToken]
Key      == [kind |-> "key", token |-> NoToken]
Login(t) == [kind |-> "oauth", token |-> t]

Blank == [n \in Members |-> NoEntry]

Doc(form, at) == [form |-> form, at |-> at]
Absent        == Doc("absent", Blank)
Garbled       == Doc("garbled", Blank)
Whole(form, e) == Doc(form, [Blank EXCEPT ![Unnamed] = e])

\* A document: either its providers have entries, or the whole of it is one.
IsEntry(e, grants) ==
  \/ e \in {NoEntry, Key}
  \/ e.kind = "oauth" /\ e.token \in [grant : grants, refresh : Nat] /\ e = Login(e.token)
IsDoc(doc, grants) ==
  /\ doc = Doc(doc.form, doc.at) /\ DOMAIN doc.at = Members
  /\ \A n \in Members : IsEntry(doc.at[n], grants)
  /\ doc.form = "named" => doc.at[Unnamed] = NoEntry
  /\ doc.form # "named" => \A n \in Names : doc.at[n] = NoEntry

\* The alias: chatgpt means openai-codex where it has no entry of its own.
EntryOf(doc, name) ==
  IF name = CHATGPT /\ doc.at[name] = NoEntry THEN doc.at[CODEX] ELSE doc.at[name]

\* oauth_load_provider, parse_token_object: NoToken if there is no complete
\* login.  A whole object holds an access token only if it is a login; without
\* one it is searched for the name, in vain.
TokenOf(doc, name) ==
  IF doc.form = "named" THEN EntryOf(doc, name).token ELSE doc.at[Unnamed].token

\* auth_file_load and provider_new_auth: how a provider signs its requests;
\* "null" is no provider at all.
Scheme(doc, name) ==
  LET e == IF doc.form = "single" THEN doc.at[Unnamed] ELSE EntryOf(doc, name)
  IN IF doc.form = "absent" THEN IF name = CHATGPT THEN "oauth" ELSE "key"
     ELSE IF doc.form \in {"garbled", "flat"} THEN "null"
     ELSE [none |-> "null", key |-> "key",
           oauth |-> IF name = KEYED THEN "null" ELSE "oauth"][e.kind]

\* mutation: only the keys survive a save
KeysOnly(doc, name) ==
  IF doc.form = "named"
    THEN [n \in Members |-> IF n # name /\ doc.at[n].kind = "key" THEN doc.at[n] ELSE NoEntry]
    ELSE Blank

\* copy_auth_member over the members of a document with named entries: logins
\* and keys are written again.
Copied(doc, name) ==
  IF doc.form = "named"
    THEN [n \in Members |-> IF n # name /\ doc.at[n].kind \in {"oauth", "key"}
                                   THEN doc.at[n] ELSE NoEntry]
    ELSE Blank

\* save_token and auth_save_api_key: what they write over what they read
Saved(doc, name, entry) == Doc("named", [Copied(doc, name) EXCEPT ![name] = entry])

\* oauth_remove_provider on a document it does not unlink
Removed(doc, name) == Doc("named", Copied(doc, name))

Tokens(doc) == {doc.at[n].token : n \in DOMAIN doc.at} \ {NoToken}
Grants(doc) == {t.grant : t \in Tokens(doc)}
=============================================================================
