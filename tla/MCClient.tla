------------------------------ MODULE MCClient ------------------------------
(* Small instances, for TLC, of what the client does beside its session    *)
(* and the shared world.  A behaviour runs one of the parts of the run,    *)
(* `focus`.                                                                *)
EXTENDS Screen, Chat, Puppets, Saves, Motion, Codec, Mounts, Appearance, TLC

CONSTANTS Part, p1, p2, male, female, c1, c2, r1, r2, v1, v2, w1, g1, g2

VARIABLE focus

vars == <<focus, screenVars, chatVars, puppetVars, savesVars, motionVars, codecVars, mountsVars,
          looksVars>>

Init == /\ focus \in Part
        /\ ScreenInit
        /\ ChatInit
        /\ PuppetsInit
        /\ SavesInit
        /\ MotionInit
        /\ CodecInit
        /\ MountsInit
        /\ AppearanceInit
        /\ focus # "icon" => riding = FALSE
        /\ focus # "looks" => outfit = [p \in Wearer |-> {}]

(* The screen, while nobody has said where the player is, and its icon,     *)
(* while one call at most is on its way: the two bounds of "screen", "icon". *)
ScreenBounds == \/ focus = "screen" /\ inVehicle' = 2
                \/ focus = "icon" /\ Len(calls') < 2

Next == /\ UNCHANGED focus
        /\ \/ /\ ScreenNext /\ ScreenBounds
              /\ UNCHANGED <<chatVars, puppetVars, savesVars, motionVars, codecVars, mountsVars, looksVars>>
           \/ /\ focus = "chat" /\ ChatNext
              /\ UNCHANGED <<screenVars, puppetVars, savesVars, motionVars, codecVars, mountsVars, looksVars>>
           \/ /\ focus = "puppets" /\ PuppetsNext
              /\ UNCHANGED <<screenVars, chatVars, savesVars, motionVars, codecVars, mountsVars, looksVars>>
           \/ /\ focus = "saves" /\ SavesNext
              /\ UNCHANGED <<screenVars, chatVars, puppetVars, motionVars, codecVars, mountsVars, looksVars>>
           \/ /\ focus = "motion" /\ MotionNext
              /\ UNCHANGED <<screenVars, chatVars, puppetVars, savesVars, codecVars, mountsVars, looksVars>>
           \/ /\ focus = "codec" /\ CodecNext
              /\ UNCHANGED <<screenVars, chatVars, puppetVars, savesVars, motionVars, mountsVars, looksVars>>
           \/ /\ focus = "mounts" /\ MountsNext
              /\ UNCHANGED <<screenVars, chatVars, puppetVars, savesVars, motionVars, codecVars, looksVars>>
           \/ /\ focus = "looks" /\ AppearanceNext
              /\ UNCHANGED <<screenVars, chatVars, puppetVars, savesVars, motionVars, codecVars, mountsVars>>

Spec == Init /\ [][Next]_vars

(* The two elements of each set of F change places, all at once.            *)
Together(F) == {p \in Permutations(UNION F) :
                   /\ \A S \in F : \A x \in S : p[x] \in S
                   /\ (\E x \in UNION F : p[x] = x) => \A x \in UNION F : p[x] = x}

(* Templates, characters, puppets, riders and vehicles are alike, and no    *)
(* behaviour has to do with templates, puppets and riders, or with          *)
(* characters and vehicles.                                                 *)
Alike == Together({Template, Puppet, Rider}) \cup Together({Character, Vehicle})

TypeOK == /\ ScreenTypeOK
          /\ ChatTypeOK
          /\ PuppetsTypeOK
          /\ SavesTypeOK
          /\ MotionTypeOK
          /\ CodecTypeOK
          /\ MountsTypeOK
          /\ AppearanceTypeOK
=============================================================================
