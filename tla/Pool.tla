-------------------------------- MODULE Pool --------------------------------
(***************************************************************************)
(* The state of a run that checks several components, one at a time: which  *)
(* of them a behaviour is about, and a pool of variables that the component *)
(* takes its own from, in the order of its declaration. Idle<k> and Rest<k> *)
(* are the variables from v<k> on, which a component with fewer than k of   *)
(* its own does not use.                                                    *)
(***************************************************************************)
VARIABLES
    part,
    v1, v2, v3, v4, v5, v6, v7, v8, v9, v10, v11, v12, v13, v14, v15, v16, v17, v18, v19

Idle19 == v19 = 0
Idle18 == v18 = 0 /\ Idle19
Idle17 == v17 = 0 /\ Idle18
Idle16 == v16 = 0 /\ Idle17
Idle15 == v15 = 0 /\ Idle16
Idle14 == v14 = 0 /\ Idle15
Idle13 == v13 = 0 /\ Idle14
Idle12 == v12 = 0 /\ Idle13
Idle11 == v11 = 0 /\ Idle12
Idle10 == v10 = 0 /\ Idle11
Idle9  == v9 = 0 /\ Idle10
Idle8  == v8 = 0 /\ Idle9
Idle7  == v7 = 0 /\ Idle8
Idle6  == v6 = 0 /\ Idle7
Idle5  == v5 = 0 /\ Idle6
Idle4  == v4 = 0 /\ Idle5

Rest19 == <<v19>>
Rest18 == <<v18, Rest19>>
Rest17 == <<v17, Rest18>>
Rest16 == <<v16, Rest17>>
Rest15 == <<v15, Rest16>>
Rest14 == <<v14, Rest15>>
Rest13 == <<v13, Rest14>>
Rest12 == <<v12, Rest13>>
Rest11 == <<v11, Rest12>>
Rest10 == <<v10, Rest11>>
Rest9  == <<v9, Rest10>>
Rest8  == <<v8, Rest9>>
Rest7  == <<v7, Rest8>>
Rest6  == <<v6, Rest7>>
Rest5  == <<v5, Rest6>>
Rest4  == <<v4, Rest5>>
pool   == <<part, v1, v2, v3, Rest4>>
=============================================================================
