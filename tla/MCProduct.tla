----------------------------- MODULE MCProduct ------------------------------
(* Job orders, dictionaries and source products for TLC.                    *)
EXTENDS Product

Parameter == [name : {"", "Segment_Line_Count", "Other"}, value : {"", "400", "x"}]
AuxFile   == [id : {"", "AUX", "LUT"}, name : {"", "aux.nc", "lut.nc"}]

JobOrder == [parameters |-> <<[name |-> "Segment_Line_Count", value |-> "400"]>>,
             hasAux |-> TRUE, aux |-> <<[id |-> "AUX", name |-> "aux.nc"]>>,
             logLevel |-> "DEBUG", inputs |-> <<"a", "b">>, outputs |-> <<"product">>]

(* Every list of up to two parameters or auxiliary files, with and without  *)
(* texts, no input, no output, and what is no job order at all.             *)
JobOrders ==
  {[JobOrder EXCEPT !.parameters = p] : p \in BoundedSeq(Parameter, 2)}
    \cup {[JobOrder EXCEPT !.aux = a] : a \in BoundedSeq(AuxFile, 2)}
    \cup {[JobOrder EXCEPT !.inputs = << >>], [JobOrder EXCEPT !.outputs = << >>],
          [JobOrder EXCEPT !.logLevel = ""], [JobOrder EXCEPT !.hasAux = FALSE],
          [JobOrder EXCEPT !.aux = NoDocument], NoDocument}

Variable(name, nc, segment, dims) ==
  [name |-> name, ncName |-> nc, segment |-> segment, dims |-> dims, attributes |-> {}]

Dim(name, size) == [name |-> name, size |-> size]
Attribute(name, value) == [name |-> name, value |-> value]

(* A variable with an attribute in its document, as longitude has.          *)
Shifted == [Variable("L_1_exception", "exception", "SLN", << >>)
              EXCEPT !.attributes = {Attribute("add_offset", "0")}]

(* Radiances have the same names in two files and segments.                 *)
Olc == [file |-> "olc", variables |-> <<Variable("L_1", "radiance", "OLC", << >>)>>]
Sln == [file |-> "sln", variables |-> <<Variable("L_1", "radiance", "SLN", << >>), Shifted>>]
Twice == [file |-> "twice", variables |-> <<Variable("L_1", "", "OLC", << >>)>>]

Map(file, name) ==
  [file |-> file,
   variables |-> <<Variable(name, "", "VGT", <<Dim("lat", 0), Dim("lon", 0)>>)>>]

Latlon == [file |-> "", variables |-> <<Variable("lat", "", "VGT_LAT", <<Dim("lat", 0)>>),
                                        Variable("lon", "", "VGT_LON", <<Dim("lon", 0)>>)>>]
LatlonTp == [file |-> "", variables |-> <<Variable("lat", "", "VGT_LAT_TP", <<Dim("lat_tp", 0)>>),
                                          Variable("lon", "", "VGT_LON_TP", <<Dim("lon_tp", 0)>>)>>]
Crs == [file |-> "", variables |-> <<Variable("crs", "", "CRS", << >>)>>]
Vza ==
  [file |-> "vza",
   variables |-> <<Variable("VZA", "", "VGT_TP", <<Dim("lat_tp", 0), Dim("lon_tp", 0)>>)>>]
Sdr == [file |-> "sdr", variables |-> <<Variable("SDR_1", "SDR", "SYN_COLLOCATED", << >>),
                                        Variable("SDR_1_err", "SDR_ERR", "SYN_COLLOCATED", << >>)>>]
Flags == [file |-> "flags", variables |-> <<Variable("CLOUD", "", "SYN_COLLOCATED", << >>)>>]

Vgs == [source |-> <<Olc, Sln>>, target |-> <<Map("b0", "B0"), Latlon, Crs, Map("sm", "SM")>>,
        placeholders |-> {"b0", "sm"}]
Vgp == [source |-> <<Sln, Olc>>, target |-> <<Vza, LatlonTp, Map("b0", "B0"), Crs, Latlon>>,
        placeholders |-> {"b0", "vza"}]
Sy2 == [source |-> <<Olc, Sln>>, target |-> <<Flags, Sdr>>, placeholders |-> {"flags", "sdr"}]

MCSetups ==
  [document : JobOrders, resources : {Vgs}]
    \cup [document : {JobOrder, [JobOrder EXCEPT !.inputs = <<"a">>],
                      [JobOrder EXCEPT !.inputs = <<"a", "b", "c">>]},
          resources : {Vgp, Sy2, [Vgs EXCEPT !.source = <<Olc, Twice>>],
                       [Sy2 EXCEPT !.target = <<NoDocument>>]}]

(* Products that differ in the names, the number and the sizes of            *)
(* dimensions, in attributes and the order of variables, and one without a  *)
(* file.                                                                    *)
NcVariable(name, dims, attributes) == [name |-> name, dims |-> dims, attributes |-> attributes]

Rows(n)  == <<Dim("rows", n), Dim("columns", 2)>>
Lines(n) == <<Dim("lines", n), Dim("columns", 2)>>
Cameras  == <<Dim("cameras", 5), Dim("rows", 4), Dim("columns", 3)>>
Fill(v)  == {Attribute("_FillValue", v)}
Scale(v) == Fill(v) \cup {Attribute("add_offset", "5")}

MCLayouts ==
  {[olc |-> <<NcVariable("radiance", Rows(4), Fill("0"))>>,
    sln |-> <<NcVariable("radiance", Rows(4), Fill("0")), NcVariable("exception", Rows(4), {})>>],
   [olc |-> <<NcVariable("radiance", Rows(6), Scale("1")), NcVariable("error", Rows(6), Fill("1"))>>,
    sln |-> <<NcVariable("radiance", Lines(3), Fill("1")), NcVariable("exception", Rows(3), Scale("1"))>>],
   [olc |-> <<NcVariable("radiance", Cameras, {}), NcVariable("error", Cameras, {})>>,
    sln |-> <<NcVariable("exception", Rows(4), Fill("0")), NcVariable("radiance", Rows(4), {})>>],
   [olc |-> <<NcVariable("radiance", Cameras, Fill("0"))>>,
    sln |-> <<NcVariable("radiance", Cameras, Fill("0")), NcVariable("exception", Lines(2), {})>>],
   [olc |-> <<NcVariable("radiance", Rows(4), Fill("0"))>>]}
=============================================================================
