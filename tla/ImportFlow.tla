----------------------------- MODULE ImportFlow -----------------------------
(***************************************************************************)
(* Importing a secret: which wallets a phrase can belong to and why it is  *)
(* refused (src/src/mnemonic.js), what the daemon registers, and how the   *)
(* three clients (src/src/cli.js, src/src/tui.js, src/gui/src/views/       *)
(* Import.svelte) let a user waive a checksum that fails.                  *)
(*                                                                         *)
(* A phrase is what the checks can tell of it: its number of words, and    *)
(* whether it is valid BIP39 and a valid Electrum seed.  How the wallets   *)
(* are then built is SourceRegistry's subject.  The module's names are its *)
(* own, so that ClientProofs can extend it beside StatusView.              *)
(***************************************************************************)
EXTENDS Integers

CONSTANTS
  Phrases,  \* the phrases a user may type, the right one and mistyped ones
  Keys,     \* lists of private keys
  Losses    \* how often an answer is lost or a source removed

\* The lengths of BIP39; its checksum is defined for these only.
BIP39Words == {12, 15, 18, 21, 24}

ASSUME ImportAssumption ==
  /\ Phrases \subseteq [words : Nat, bip39 : BOOLEAN, electrum : BOOLEAN]
  /\ \A p \in Phrases : p.bip39 => p.words \in BIP39Words
  /\ Keys \cap Phrases = {} /\ Losses \in Nat

VARIABLES
  form,     \* the client: what is typed, ticked, offered, under way
  sources,  \* sources.json: secrets and the derivations they came in as
  losses    \* how many of those may still come

importVars == <<form, sources, losses>>

Loses == losses > 0 /\ losses' = losses - 1

-----------------------------------------------------------------------------
(* What a phrase is accepted for.                                          *)

\* The derivations behind the types a user knows; coinomi's is navcoin-js-v1.
Types == {"navcoin-core", "navcash", "next", "navpay", "navcoin-js-v1"}

Scheme(t) == IF t = "navcash" THEN "electrum" ELSE "bip39"
Waivable(t) == t = "navcoin-core"
Words(t, n) == t = "navcoin-core" => n = 24
Valid(p, scheme) == IF scheme = "electrum" THEN p.electrum ELSE p.bip39

Refused(code, t, waivable, every) ==
  [code |-> code, check |-> Scheme(t), waivable |-> waivable, every |-> every]
Accepted == [code |-> "none", check |-> "none", waivable |-> FALSE,
             every |-> FALSE]

\* Mutant: the waiver is looked at before the number of words.
RefusalWaivedFirst(p, t, waive) ==
  IF (Waivable(t) /\ waive) \/ (Words(t, p.words) /\ Valid(p, Scheme(t)))
  THEN Accepted ELSE Refused("checksum", t, Waivable(t), FALSE)

\* assertMnemonicAccepted.
Refusal(p, t, waive) ==
  CASE ~Words(t, p.words) -> Refused("words", t, FALSE, FALSE)
    [] /\ Words(t, p.words) /\ Scheme(t) = "bip39"
       /\ p.words \notin BIP39Words -> Refused("words", t, FALSE, TRUE)
    [] OTHER -> IF Valid(p, Scheme(t)) \/ (Waivable(t) /\ waive)
                THEN Accepted ELSE Refused("checksum", t, Waivable(t), FALSE)

\* getEligibleWalletTypes.
Eligible(p, waive) == {t \in Types : Refusal(p, t, waive) = Accepted}

\* Mutant: what can be waived is not preferred to what cannot.
RankLast(e, waive) ==
  CASE e.every -> 1
    [] e.code = "words" /\ ~e.every -> IF waive THEN 2 ELSE 3
    [] e.code = "checksum" /\ e.check = "bip39" /\ ~e.waivable ->
         IF waive THEN 3 ELSE 2
    [] OTHER -> 4

\* explainNoEligibleWalletType: which refusal is the one to report.
Rank(e, waive) ==
  CASE e.waivable -> 0
    [] e.every -> 1
    [] e.code = "words" /\ ~e.every -> IF waive THEN 2 ELSE 3
    [] e.check = "bip39" /\ e.code = "checksum" /\ ~e.waivable ->
         IF waive THEN 3 ELSE 2
    [] OTHER -> 4

Explanation(p, waive) ==
  LET errors == {Refusal(p, t, waive) : t \in Types}
  IN  CHOOSE e \in errors : \A f \in errors : Rank(e, waive) <= Rank(f, waive)

\* validateImportInput: the derivations to import, and whether the reason
\* for there being none can be waived.
Derivations(s, waive) ==
  IF s \in Keys THEN {"private-key"}
  ELSE IF s.words < 12 THEN {} ELSE Eligible(s, waive)
CanWaive(s, waive) ==
  s \in Phrases /\ s.words >= 12 /\ Eligible(s, waive) = {}
    /\ Explanation(s, waive).waivable

\* What navcoin-js can derive: navcoin-core takes 256 bits of entropy and
\* never looks at the checksum, the others check their own.
Derives(s, t) ==
  CASE t = "private-key" -> s \in Keys
    [] t = "navcoin-core" -> s \in Phrases /\ s.words = 24
    [] t = "navcash" -> s \in Phrases /\ s.electrum
    [] OTHER -> s \in Phrases /\ s.bip39

-----------------------------------------------------------------------------
(* The clients and the daemon.                                             *)

NoSecret == [words |-> 0, bip39 |-> FALSE, electrum |-> FALSE]
Blank(client) == [client |-> client, at |-> "form", secret |-> NoSecret,
                  waive |-> FALSE, offered |-> FALSE, refused |-> NoSecret]

ImportInit ==
  /\ form \in {Blank(client) : client \in {"cli", "tui", "gui"}}
  /\ sources = {} /\ losses = Losses

\* The GUI's form keeps its checkbox while the text in it changes; in the
\* terminal UI a phrase is typed at a prompt, and a command line says it all.
Type(s) ==
  /\ form.at = "form" /\ UNCHANGED <<sources, losses>>
  /\ CASE form.client = "gui" -> form' = [form EXCEPT !.secret = s]
       [] form.client = "tui" ->
            form' = [Blank("tui") EXCEPT !.secret = s, !.at = "sent"]
       [] OTHER -> \E flag \in BOOLEAN :
            form' = [Blank("cli") EXCEPT !.secret = s, !.at = "sent",
                                         !.waive = flag]

\* The checkbox, which is there once a checksum was refused.
TickWaiver ==
  /\ form.client = "gui" /\ form.at = "form" /\ form.offered
  /\ form' = [form EXCEPT !.waive = ~@] /\ UNCHANGED <<sources, losses>>

Submit ==
  /\ form.client = "gui" /\ form.at = "form" /\ form.secret # NoSecret
  /\ form' = [form EXCEPT !.at = "sent"] /\ UNCHANGED <<sources, losses>>

New(s, waive) ==
  {[secret |-> s, type |-> t] : t \in Derivations(s, waive)} \ sources

\* What is left of the form when the import failed, with `why` refused.
Failed(waivable, why) ==
  LET back == [form EXCEPT !.at = "form", !.offered = waivable,
                           !.refused = why]
  IN  CASE form.client = "gui" ->
             [back EXCEPT !.waive = @ /\ waivable]
        [] form.client = "tui" /\ waivable /\ ~form.waive ->
             [back EXCEPT !.at = "asked"]
        [] OTHER -> back

\* importSources, as one step: the derivations that are not there yet.
Accept ==
  /\ form.at = "sent" /\ New(form.secret, form.waive) # {}
  /\ sources' = sources \cup New(form.secret, form.waive)
  /\ \/ form' = Blank(form.client) /\ UNCHANGED losses
     \/ Loses /\ form' = Failed(FALSE, NoSecret)

\* Nothing to derive, or all of it is there; or no daemon answers.
Refuse ==
  /\ form.at = "sent" /\ UNCHANGED sources
  /\ \/ /\ New(form.secret, form.waive) = {} /\ UNCHANGED losses
        /\ form' = Failed(CanWaive(form.secret, form.waive),
                          IF form.waive THEN NoSecret ELSE form.secret)
     \/ Loses /\ form' = Failed(FALSE, NoSecret)

\* The terminal UI's question.
Reply == \E yes \in BOOLEAN :
  /\ form.at = "asked" /\ UNCHANGED <<sources, losses>>
  /\ form' = IF yes THEN [form EXCEPT !.at = "sent", !.waive = TRUE]
             ELSE [form EXCEPT !.at = "form"]

\* A source is removed; the phrase's others stay.
Remove ==
  /\ Loses /\ \E s \in sources : sources' = sources \ {s}
  /\ UNCHANGED form

ImportNext ==
  \/ \E s \in Phrases \cup Keys : Type(s)
  \/ TickWaiver \/ Submit \/ Accept \/ Refuse \/ Reply \/ Remove

ImportSpec == ImportInit /\ [][ImportNext]_importVars

-----------------------------------------------------------------------------
(* Properties.                                                             *)

\* What is registered is what navcoin-js can derive, so that no derivation
\* fails in a worker after its import was answered; and a phrase that is
\* accepted is in for every derivation of it, a failed checksum waived or
\* not, at once or with earlier imports of it (WALLET_TYPE_CHECKS,
\* assertMnemonicAccepted).
ImportsWhatDerives ==
  /\ \A s \in sources : Derives(s.secret, s.type)
  /\ LET s == form.secret IN
     form.at = "sent" /\ s \in Phrases /\ s.words >= 12 =>
       \A t \in Types :
         Derives(s, t) /\ (Waivable(t) => s.bip39 \/ form.waive) =>
           [secret |-> s, type |-> t] \in sources \cup New(s, form.waive)

\* A user is offered to waive the check of a phrase if and only if that leads
\* to a wallet, of all that was wrong with it (explainNoEligibleWalletType).
OfferHelps ==
  LET s == form.refused IN
  s \in Phrases /\ Derivations(s, FALSE) = {} =>
    (form.offered <=> Derivations(s, TRUE) # {})
=============================================================================
