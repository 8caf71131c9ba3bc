--------------------------- MODULE MCEventPipeline ---------------------------
(* Instances of EventPipeline for TLC: the files that are reported. *)
EXTENDS EventPipeline

Alphabet == <<"burglary", "fire">>

Bool(b) == [json |-> "boolean", value |-> b]
Text(b) == [json |-> "string", value |-> b]

Json(city, name, date, active, arrival, description) ==
  [city |-> city, event_name |-> name,
   date_time |-> [json |-> "number", value |-> date],
   description |-> description,
   general_information |-> [active |-> active, forces_arrival_at_scene |-> arrival]]

Fire     == Json("Ely", "fire", 2, Bool("true"), Bool("false"), <<Prose(3), Prose(23)>>)
Burglary == Json("Ely", "burglary", 2, Bool("true"), Text("true"), <<Prose(25)>>)
Early    == Json("Ur:", "fire", 1, Text("false"), Bool("true"), <<Prose(26)>>)
Bare     == [Early EXCEPT !.general_information = [active |-> Bool("true")],
                          !.description = <<Prose(0)>>]
Quoted   == [Fire EXCEPT !.date_time.json = "string"]

ProseFiles == {<<Fire, Burglary>>, <<Burglary, Early>>, <<Bare, Bare>>,
               <<Early, Quoted>>, <<>>}

ASSUME FilesArePlain == PlainDescriptions

\* A remark, a line like a field, and one like general information.
Talk == {Remark("Note", " come", 12), Remark("user", "bob", 8),
         Remark("date time", "soon", 14), Remark("\tactive", " true", 13)}
=============================================================================
