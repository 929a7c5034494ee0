------------------------------ MODULE MCServices ------------------------------
(* Eight parts of the service that share no state in the model, in one run: a  *)
(* behaviour has one of them in its focus, and the others rest in their        *)
(* initial state.                                                              *)
EXTENDS Relationships, Attachments, ShelfBooks, Embeddings, RuleDispatch,
        Onboarding, BookImport, Passkeys, TLC
CONSTANTS olga, una, members, pat, quin, note, top, sub, starred, cover, scan, photo, key

VARIABLE focus
mcVars == <<focus, relVars, attVars, shelfVars, embVars, ruleVars, onboardingVars,
            importVars, keyVars>>

MCUsers == {olga, una}
MCLevels == {"write", "admin"}
\* What an admin of the resource and a granter of membership can hand out.
MCCeiling == {Right("access", "admin"), Right("access", "write"), Right("grant", "write"),
              Right("delegate", "write"), Right("grant", "member"), Right("access", "member")}
MCLists == {{Tuple(Right("access", "write"), members)},
            {Tuple(Right("access", "admin"), una), Tuple(Right("access", "write"), una)}}
\* One of these relationships may be there at the start.
MCGiven == {Tuple(Right("access", "admin"), una), Tuple(Right("delegate", "write"), una),
            Tuple(Right("access", "write"), members), Tuple(Right("grant", "member"), una)}

MCEdits == {<<pat, note>>}
MCSees == {<<pat, note>>, <<quin, note>>}

MCAbove == (top :> Top) @@ (sub :> top)
R(on, kind, arg, enabled) == [on |-> on, kind |-> kind, arg |-> arg, enabled |-> enabled]
MCRows == {R(top, "add_to_directory", top, TRUE), R(TheShelf, "add_to_directory", top, TRUE),
           R(TheNote, "add_tag", starred, TRUE)}
MCChanges == {[give |-> {"kind"}, row |-> R(top, "add_tag", starred, TRUE)],
              [give |-> {"arg"}, row |-> R(top, "add_to_directory", sub, TRUE)],
              [give |-> {"on", "enabled"}, row |-> R(top, "add_tag", starred, FALSE)]}

\* Two users of before, the one with a default book and one of their own.
MCEarly == <<User("public_user", "system", FALSE), User("ann", "human", FALSE)>>
MCEarlyBooks == <<[slug |-> "fleeting", owner |-> 2], [slug |-> "own", owner |-> 2]>>
MCSlugOf == ("public_user" :> "public") @@ ("ann" :> "ann") @@ ("Ann" :> "ann") @@ ("bob" :> "bob")

MCHolderOf == key :> pat

File(id, f) == [id |-> id, file |-> f]
Refers(how, to, inline) == [how |-> how, to |-> to, inline |-> inline]
InBook(id, c, images, attached, refs) ==
    [id |-> id, chapter |-> c, images |-> images, attachments |-> attached, refs |-> refs]
\* Every way of referring to a file; and a book whose ids clash.
MCExports ==
    {[files |-> {cover, scan, photo}, chapters |-> <<4, 5>>, pages |->
        <<InBook(7, 4, {File(1, cover)}, {File(2, scan)},
                 {Refers("image", 1, TRUE), Refers("attachment", 2, FALSE),
                  Refers("file", photo, TRUE)}),
          InBook(8, 0, {}, {}, {Refers("image", 1, FALSE), Refers("image", 1, TRUE),
                 Refers("page", 7, FALSE), Refers("image", 3, FALSE)})>>],
     [files |-> {cover, scan}, chapters |-> <<4>>, pages |->
        <<InBook(7, 4, {File(1, cover)}, {File(1, scan)},
                 {Refers("image", 1, TRUE), Refers("attachment", 1, FALSE)}),
          InBook(7, 4, {}, {}, {Refers("image", 1, FALSE)})>>]}

MCInit ==
    /\ focus \in {"relationships", "attachments", "shelves", "embeddings",
                "rules", "onboarding", "import", "passkeys"}
    /\ RelInit /\ AttInit /\ ShelfInit /\ EmbInit /\ RuleInit
    /\ OnboardingInit /\ ImportInit /\ KeysInit
    /\ tuples \subseteq {Tuple(Owner, olga)} \cup MCGiven
    /\ focus # "relationships" => tuples = {Tuple(Owner, olga)}
    /\ focus # "rules" => inFolders = Folders /\ \A r \in Rules : ruleRow[r] = Top
    /\ focus # "import" => Len(export.chapters) = 2

MCNext ==
    /\ \/ focus = "relationships" /\ RelNext
          /\ UNCHANGED <<attVars, shelfVars, embVars, ruleVars, onboardingVars, importVars, keyVars>>
       \/ focus = "attachments" /\ AttNext
          /\ UNCHANGED <<relVars, shelfVars, embVars, ruleVars, onboardingVars, importVars, keyVars>>
       \/ focus = "shelves" /\ ShelfNext
          /\ UNCHANGED <<relVars, attVars, embVars, ruleVars, onboardingVars, importVars, keyVars>>
       \/ focus = "embeddings" /\ EmbNext
          /\ UNCHANGED <<relVars, attVars, shelfVars, ruleVars, onboardingVars, importVars, keyVars>>
       \/ focus = "rules" /\ RuleNext
          /\ UNCHANGED <<relVars, attVars, shelfVars, embVars, onboardingVars, importVars, keyVars>>
       \/ focus = "onboarding" /\ OnboardingNext
          /\ UNCHANGED <<relVars, attVars, shelfVars, embVars, ruleVars, importVars, keyVars>>
       \/ focus = "import" /\ ImportNext
          /\ UNCHANGED <<relVars, attVars, shelfVars, embVars, ruleVars, onboardingVars, keyVars>>
       \/ focus = "passkeys" /\ KeysNext
          /\ UNCHANGED <<relVars, attVars, shelfVars, embVars, ruleVars, onboardingVars, importVars>>
    /\ UNCHANGED focus

MCSpec == MCInit /\ [][MCNext]_mcVars

TypesOK ==
    /\ focus = "relationships" => RelTypeOK
    /\ focus = "attachments" => AttTypeOK
    /\ focus = "shelves" => ShelfTypeOK
    /\ focus = "embeddings" => EmbTypeOK
    /\ focus = "rules" => RuleTypeOK
    /\ focus = "onboarding" => OnboardingTypeOK
    /\ focus = "import" => ImportTypeOK
    /\ focus = "passkeys" => KeysTypeOK

\* Requests are told apart by nothing but their ids; so are rules.
MCSym == Permutations(Calls) \cup Permutations(Rules)
===============================================================================
