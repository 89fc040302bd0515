---- MODULE DfaTables ----
(***************************************************************************)
(* The nibble automaton as shipped: what gen_dfa_tables.py printed into    *)
(* Lowstar.DfaTables.fst and KaRaMeL copied into cbits/generated.  A cell  *)
(* packs next_id * 65536 + emit_flag * 256 + sym; a line is one state's 16 *)
(* cells.  State keys are <<acc, nbits>> pairs: the source packs them as   *)
(* acc * 32 + nbits, beyond the integers TLC computes with.                *)
(***************************************************************************)
EXTENDS Integers, Sequences, HpackTable

dfa_state_keys == <<
    <<0,0>>, <<0,4>>, <<1,4>>, <<2,4>>, <<3,4>>, <<4,4>>, <<5,4>>, <<6,4>>,
    <<7,4>>, <<8,4>>, <<9,4>>, <<10,4>>, <<11,4>>, <<12,4>>, <<13,4>>, <<14,4>>,
    <<15,4>>, <<0,3>>, <<1,3>>, <<2,3>>, <<3,3>>, <<4,3>>, <<5,3>>, <<6,3>>,
    <<7,3>>, <<0,2>>, <<1,2>>, <<2,2>>, <<3,2>>, <<0,1>>, <<1,1>>, <<254,8>>,
    <<255,8>>, <<124,7>>, <<125,7>>, <<126,7>>, <<127,7>>, <<46,6>>, <<47,6>>, <<48,6>>,
    <<49,6>>, <<50,6>>, <<51,6>>, <<52,6>>, <<53,6>>, <<54,6>>, <<55,6>>, <<56,6>>,
    <<57,6>>, <<58,6>>, <<59,6>>, <<60,6>>, <<61,6>>, <<62,6>>, <<63,6>>, <<10,5>>,
    <<11,5>>, <<12,5>>, <<13,5>>, <<14,5>>, <<15,5>>, <<16,5>>, <<17,5>>, <<18,5>>,
    <<19,5>>, <<20,5>>, <<21,5>>, <<22,5>>, <<23,5>>, <<24,5>>, <<25,5>>, <<26,5>>,
    <<27,5>>, <<28,5>>, <<29,5>>, <<30,5>>, <<31,5>>, <<4092,12>>, <<4093,12>>, <<4094,12>>,
    <<4095,12>>, <<2045,11>>, <<2046,11>>, <<2047,11>>, <<1021,10>>, <<1022,10>>, <<1023,10>>, <<508,9>>,
    <<509,9>>, <<510,9>>, <<511,9>>, <<65534,16>>, <<65535,16>>, <<32767,15>>, <<16382,14>>, <<16383,14>>,
    <<8190,13>>, <<8191,13>>, <<1048558,20>>, <<1048559,20>>, <<1048560,20>>, <<1048561,20>>, <<1048562,20>>, <<1048563,20>>,
    <<1048564,20>>, <<1048565,20>>, <<1048566,20>>, <<1048567,20>>, <<1048568,20>>, <<1048569,20>>, <<1048570,20>>, <<1048571,20>>,
    <<1048572,20>>, <<1048573,20>>, <<1048574,20>>, <<1048575,20>>, <<524275,19>>, <<524276,19>>, <<524277,19>>, <<524278,19>>,
    <<524279,19>>, <<524280,19>>, <<524281,19>>, <<524282,19>>, <<524283,19>>, <<524284,19>>, <<524285,19>>, <<524286,19>>,
    <<524287,19>>, <<262136,18>>, <<262137,18>>, <<262138,18>>, <<262139,18>>, <<262140,18>>, <<262141,18>>, <<262142,18>>,
    <<262143,18>>, <<131068,17>>, <<131069,17>>, <<131070,17>>, <<131071,17>>, <<16777206,24>>, <<16777207,24>>, <<16777208,24>>,
    <<16777209,24>>, <<16777210,24>>, <<16777211,24>>, <<16777212,24>>, <<16777213,24>>, <<16777214,24>>, <<16777215,24>>, <<8388597,23>>,
    <<8388598,23>>, <<8388599,23>>, <<8388600,23>>, <<8388601,23>>, <<8388602,23>>, <<8388603,23>>, <<8388604,23>>, <<8388605,23>>,
    <<8388606,23>>, <<8388607,23>>, <<4194284,22>>, <<4194285,22>>, <<4194286,22>>, <<4194287,22>>, <<4194288,22>>, <<4194289,22>>,
    <<4194290,22>>, <<4194291,22>>, <<4194292,22>>, <<4194293,22>>, <<4194294,22>>, <<4194295,22>>, <<4194296,22>>, <<4194297,22>>,
    <<4194298,22>>, <<4194299,22>>, <<4194300,22>>, <<4194301,22>>, <<4194302,22>>, <<4194303,22>>, <<2097129,21>>, <<2097130,21>>,
    <<2097131,21>>, <<2097132,21>>, <<2097133,21>>, <<2097134,21>>, <<2097135,21>>, <<2097136,21>>, <<2097137,21>>, <<2097138,21>>,
    <<2097139,21>>, <<2097140,21>>, <<2097141,21>>, <<2097142,21>>, <<2097143,21>>, <<2097144,21>>, <<2097145,21>>, <<2097146,21>>,
    <<2097147,21>>, <<2097148,21>>, <<2097149,21>>, <<2097150,21>>, <<2097151,21>>, <<268435455,28>>, <<134217713,27>>, <<134217714,27>>,
    <<134217715,27>>, <<134217716,27>>, <<134217717,27>>, <<134217718,27>>, <<134217719,27>>, <<134217720,27>>, <<134217721,27>>, <<134217722,27>>,
    <<134217723,27>>, <<134217724,27>>, <<134217725,27>>, <<134217726,27>>, <<134217727,27>>, <<67108847,26>>, <<67108848,26>>, <<67108849,26>>,
    <<67108850,26>>, <<67108851,26>>, <<67108852,26>>, <<67108853,26>>, <<67108854,26>>, <<67108855,26>>, <<67108856,26>>, <<67108857,26>>,
    <<67108858,26>>, <<67108859,26>>, <<67108860,26>>, <<67108861,26>>, <<67108862,26>>, <<67108863,26>>, <<33554416,25>>, <<33554417,25>>,
    <<33554418,25>>, <<33554419,25>>, <<33554420,25>>, <<33554421,25>>, <<33554422,25>>, <<33554423,25>>, <<33554424,25>>, <<33554425,25>>,
    <<33554426,25>>, <<33554427,25>>, <<33554428,25>>, <<33554429,25>>, <<33554430,25>>, <<33554431,25>>, <<536870910,29>>, <<536870911,29>> >>

dfa_chunk_0_list == <<
    65536, 131072, 196608, 262144, 327680, 393216, 458752, 524288, 589824, 655360, 720896, 786432, 851968, 917504, 983040, 1048576,
    1114416, 1179952, 1245488, 1311024, 1376560, 1442096, 1507632, 1573168, 1114417, 1179953, 1245489, 1311025, 1376561, 1442097, 1507633, 1573169,
    1114418, 1179954, 1245490, 1311026, 1376562, 1442098, 1507634, 1573170, 1114465, 1180001, 1245537, 1311073, 1376609, 1442145, 1507681, 1573217,
    1114467, 1180003, 1245539, 1311075, 1376611, 1442147, 1507683, 1573219, 1114469, 1180005, 1245541, 1311077, 1376613, 1442149, 1507685, 1573221,
    1114473, 1180009, 1245545, 1311081, 1376617, 1442153, 1507689, 1573225, 1114479, 1180015, 1245551, 1311087, 1376623, 1442159, 1507695, 1573231,
    1114483, 1180019, 1245555, 1311091, 1376627, 1442163, 1507699, 1573235, 1114484, 1180020, 1245556, 1311092, 1376628, 1442164, 1507700, 1573236,
    1638688, 1704224, 1769760, 1835296, 1638693, 1704229, 1769765, 1835301, 1638701, 1704237, 1769773, 1835309, 1638702, 1704238, 1769774, 1835310,
    1638703, 1704239, 1769775, 1835311, 1638707, 1704243, 1769779, 1835315, 1638708, 1704244, 1769780, 1835316, 1638709, 1704245, 1769781, 1835317,
    1638710, 1704246, 1769782, 1835318, 1638711, 1704247, 1769783, 1835319, 1638712, 1704248, 1769784, 1835320, 1638713, 1704249, 1769785, 1835321,
    1638717, 1704253, 1769789, 1835325, 1638721, 1704257, 1769793, 1835329, 1638751, 1704287, 1769823, 1835359, 1638754, 1704290, 1769826, 1835362,
    1638756, 1704292, 1769828, 1835364, 1638758, 1704294, 1769830, 1835366, 1638759, 1704295, 1769831, 1835367, 1638760, 1704296, 1769832, 1835368,
    1638764, 1704300, 1769836, 1835372, 1638765, 1704301, 1769837, 1835373, 1638766, 1704302, 1769838, 1835374, 1638768, 1704304, 1769840, 1835376,
    1638770, 1704306, 1769842, 1835378, 1638773, 1704309, 1769845, 1835381, 1900858, 1966394, 1900866, 1966402, 1900867, 1966403, 1900868, 1966404,
    1900869, 1966405, 1900870, 1966406, 1900871, 1966407, 1900872, 1966408, 1900873, 1966409, 1900874, 1966410, 1900875, 1966411, 1900876, 1966412,
    1900877, 1966413, 1900878, 1966414, 1900879, 1966415, 1900880, 1966416, 1900881, 1966417, 1900882, 1966418, 1900883, 1966419, 1900884, 1966420,
    1900885, 1966421, 1900886, 1966422, 1900887, 1966423, 1900889, 1966425, 1900906, 1966442, 1900907, 1966443, 1900913, 1966449, 1900918, 1966454 >>

dfa_chunk_1_list == <<
    1900919, 1966455, 1900920, 1966456, 1900921, 1966457, 1900922, 1966458, 294, 298, 300, 315, 344, 346, 2031616, 2097152,
    1638704, 1704240, 1769776, 1835312, 1638705, 1704241, 1769777, 1835313, 1638706, 1704242, 1769778, 1835314, 1638753, 1704289, 1769825, 1835361,
    1638755, 1704291, 1769827, 1835363, 1638757, 1704293, 1769829, 1835365, 1638761, 1704297, 1769833, 1835369, 1638767, 1704303, 1769839, 1835375,
    1638771, 1704307, 1769843, 1835379, 1638772, 1704308, 1769844, 1835380, 1900832, 1966368, 1900837, 1966373, 1900845, 1966381, 1900846, 1966382,
    1900847, 1966383, 1900851, 1966387, 1900852, 1966388, 1900853, 1966389, 1900854, 1966390, 1900855, 1966391, 1900856, 1966392, 1900857, 1966393,
    1900861, 1966397, 1900865, 1966401, 1900895, 1966431, 1900898, 1966434, 1900900, 1966436, 1900902, 1966438, 1900903, 1966439, 1900904, 1966440,
    1900908, 1966444, 1900909, 1966445, 1900910, 1966446, 1900912, 1966448, 1900914, 1966450, 1900917, 1966453, 314, 322, 323, 324,
    325, 326, 327, 328, 329, 330, 331, 332, 333, 334, 335, 336, 337, 338, 339, 340,
    341, 342, 343, 345, 362, 363, 369, 374, 375, 376, 377, 378, 2162688, 2228224, 2293760, 2359296,
    1900848, 1966384, 1900849, 1966385, 1900850, 1966386, 1900897, 1966433, 1900899, 1966435, 1900901, 1966437, 1900905, 1966441, 1900911, 1966447,
    1900915, 1966451, 1900916, 1966452, 288, 293, 301, 302, 303, 307, 308, 309, 310, 311, 312, 313,
    317, 321, 351, 354, 356, 358, 359, 360, 364, 365, 366, 368, 370, 373, 2424832, 2490368,
    2555904, 2621440, 2686976, 2752512, 2818048, 2883584, 2949120, 3014656, 3080192, 3145728, 3211264, 3276800, 3342336, 3407872, 3473408, 3538944,
    304, 305, 306, 353, 355, 357, 361, 367, 371, 372, 3604480, 3670016, 3735552, 3801088, 3866624, 3932160,
    3997696, 4063232, 4128768, 4194304, 4259840, 4325376, 4390912, 4456448, 4521984, 4587520, 4653056, 4718592, 4784128, 4849664, 4915200, 4980736,
    1638689, 1704225, 1769761, 1835297, 1638690, 1704226, 1769762, 1835298, 1638696, 1704232, 1769768, 1835304, 1638697, 1704233, 1769769, 1835305 >>

dfa_chunk_2_list == <<
    1638719, 1704255, 1769791, 1835327, 1900839, 1966375, 1900843, 1966379, 1900924, 1966460, 291, 318, 5046272, 5111808, 5177344, 5242880,
    1114406, 1179942, 1245478, 1311014, 1376550, 1442086, 1507622, 1573158, 1114410, 1179946, 1245482, 1311018, 1376554, 1442090, 1507626, 1573162,
    1114412, 1179948, 1245484, 1311020, 1376556, 1442092, 1507628, 1573164, 1114427, 1179963, 1245499, 1311035, 1376571, 1442107, 1507643, 1573179,
    1114456, 1179992, 1245528, 1311064, 1376600, 1442136, 1507672, 1573208, 1114458, 1179994, 1245530, 1311066, 1376602, 1442138, 1507674, 1573210,
    1900833, 1966369, 1900834, 1966370, 1900840, 1966376, 1900841, 1966377, 1900863, 1966399, 295, 299, 380, 5308416, 5373952, 5439488,
    1114426, 1179962, 1245498, 1311034, 1376570, 1442106, 1507642, 1573178, 1114434, 1179970, 1245506, 1311042, 1376578, 1442114, 1507650, 1573186,
    1114435, 1179971, 1245507, 1311043, 1376579, 1442115, 1507651, 1573187, 1114436, 1179972, 1245508, 1311044, 1376580, 1442116, 1507652, 1573188,
    1114437, 1179973, 1245509, 1311045, 1376581, 1442117, 1507653, 1573189, 1114438, 1179974, 1245510, 1311046, 1376582, 1442118, 1507654, 1573190,
    1114439, 1179975, 1245511, 1311047, 1376583, 1442119, 1507655, 1573191, 1114440, 1179976, 1245512, 1311048, 1376584, 1442120, 1507656, 1573192,
    1114441, 1179977, 1245513, 1311049, 1376585, 1442121, 1507657, 1573193, 1114442, 1179978, 1245514, 1311050, 1376586, 1442122, 1507658, 1573194,
    1114443, 1179979, 1245515, 1311051, 1376587, 1442123, 1507659, 1573195, 1114444, 1179980, 1245516, 1311052, 1376588, 1442124, 1507660, 1573196,
    1114445, 1179981, 1245517, 1311053, 1376589, 1442125, 1507661, 1573197, 1114446, 1179982, 1245518, 1311054, 1376590, 1442126, 1507662, 1573198,
    1114447, 1179983, 1245519, 1311055, 1376591, 1442127, 1507663, 1573199, 1114448, 1179984, 1245520, 1311056, 1376592, 1442128, 1507664, 1573200,
    1114449, 1179985, 1245521, 1311057, 1376593, 1442129, 1507665, 1573201, 1114450, 1179986, 1245522, 1311058, 1376594, 1442130, 1507666, 1573202,
    1114451, 1179987, 1245523, 1311059, 1376595, 1442131, 1507667, 1573203, 1114452, 1179988, 1245524, 1311060, 1376596, 1442132, 1507668, 1573204,
    1114453, 1179989, 1245525, 1311061, 1376597, 1442133, 1507669, 1573205, 1114454, 1179990, 1245526, 1311062, 1376598, 1442134, 1507670, 1573206 >>

dfa_chunk_3_list == <<
    1114455, 1179991, 1245527, 1311063, 1376599, 1442135, 1507671, 1573207, 1114457, 1179993, 1245529, 1311065, 1376601, 1442137, 1507673, 1573209,
    1114474, 1180010, 1245546, 1311082, 1376618, 1442154, 1507690, 1573226, 1114475, 1180011, 1245547, 1311083, 1376619, 1442155, 1507691, 1573227,
    1114481, 1180017, 1245553, 1311089, 1376625, 1442161, 1507697, 1573233, 1114486, 1180022, 1245558, 1311094, 1376630, 1442166, 1507702, 1573238,
    1114487, 1180023, 1245559, 1311095, 1376631, 1442167, 1507703, 1573239, 1114488, 1180024, 1245560, 1311096, 1376632, 1442168, 1507704, 1573240,
    1114489, 1180025, 1245561, 1311097, 1376633, 1442169, 1507705, 1573241, 1114490, 1180026, 1245562, 1311098, 1376634, 1442170, 1507706, 1573242,
    1638694, 1704230, 1769766, 1835302, 1638698, 1704234, 1769770, 1835306, 1638700, 1704236, 1769772, 1835308, 1638715, 1704251, 1769787, 1835323,
    1638744, 1704280, 1769816, 1835352, 1638746, 1704282, 1769818, 1835354, 289, 290, 296, 297, 319, 5505024, 5570560, 5636096,
    1114400, 1179936, 1245472, 1311008, 1376544, 1442080, 1507616, 1573152, 1114405, 1179941, 1245477, 1311013, 1376549, 1442085, 1507621, 1573157,
    1114413, 1179949, 1245485, 1311021, 1376557, 1442093, 1507629, 1573165, 1114414, 1179950, 1245486, 1311022, 1376558, 1442094, 1507630, 1573166,
    1114415, 1179951, 1245487, 1311023, 1376559, 1442095, 1507631, 1573167, 1114419, 1179955, 1245491, 1311027, 1376563, 1442099, 1507635, 1573171,
    1114420, 1179956, 1245492, 1311028, 1376564, 1442100, 1507636, 1573172, 1114421, 1179957, 1245493, 1311029, 1376565, 1442101, 1507637, 1573173,
    1114422, 1179958, 1245494, 1311030, 1376566, 1442102, 1507638, 1573174, 1114423, 1179959, 1245495, 1311031, 1376567, 1442103, 1507639, 1573175,
    1114424, 1179960, 1245496, 1311032, 1376568, 1442104, 1507640, 1573176, 1114425, 1179961, 1245497, 1311033, 1376569, 1442105, 1507641, 1573177,
    1114429, 1179965, 1245501, 1311037, 1376573, 1442109, 1507645, 1573181, 1114433, 1179969, 1245505, 1311041, 1376577, 1442113, 1507649, 1573185,
    1114463, 1179999, 1245535, 1311071, 1376607, 1442143, 1507679, 1573215, 1114466, 1180002, 1245538, 1311074, 1376610, 1442146, 1507682, 1573218,
    1114468, 1180004, 1245540, 1311076, 1376612, 1442148, 1507684, 1573220, 1114470, 1180006, 1245542, 1311078, 1376614, 1442150, 1507686, 1573222 >>

dfa_chunk_4_list == <<
    1114471, 1180007, 1245543, 1311079, 1376615, 1442151, 1507687, 1573223, 1114472, 1180008, 1245544, 1311080, 1376616, 1442152, 1507688, 1573224,
    1114476, 1180012, 1245548, 1311084, 1376620, 1442156, 1507692, 1573228, 1114477, 1180013, 1245549, 1311085, 1376621, 1442157, 1507693, 1573229,
    1114478, 1180014, 1245550, 1311086, 1376622, 1442158, 1507694, 1573230, 1114480, 1180016, 1245552, 1311088, 1376624, 1442160, 1507696, 1573232,
    1114482, 1180018, 1245554, 1311090, 1376626, 1442162, 1507698, 1573234, 1114485, 1180021, 1245557, 1311093, 1376629, 1442165, 1507701, 1573237,
    1638714, 1704250, 1769786, 1835322, 1638722, 1704258, 1769794, 1835330, 1638723, 1704259, 1769795, 1835331, 1638724, 1704260, 1769796, 1835332,
    1638725, 1704261, 1769797, 1835333, 1638726, 1704262, 1769798, 1835334, 1638727, 1704263, 1769799, 1835335, 1638728, 1704264, 1769800, 1835336,
    1638729, 1704265, 1769801, 1835337, 1638730, 1704266, 1769802, 1835338, 1638731, 1704267, 1769803, 1835339, 1638732, 1704268, 1769804, 1835340,
    1638733, 1704269, 1769805, 1835341, 1638734, 1704270, 1769806, 1835342, 1638735, 1704271, 1769807, 1835343, 1638736, 1704272, 1769808, 1835344,
    1638737, 1704273, 1769809, 1835345, 1638738, 1704274, 1769810, 1835346, 1638739, 1704275, 1769811, 1835347, 1638740, 1704276, 1769812, 1835348,
    1638741, 1704277, 1769813, 1835349, 1638742, 1704278, 1769814, 1835350, 1638743, 1704279, 1769815, 1835351, 1638745, 1704281, 1769817, 1835353,
    1638762, 1704298, 1769834, 1835370, 1638763, 1704299, 1769835, 1835371, 1638769, 1704305, 1769841, 1835377, 1638774, 1704310, 1769846, 1835382,
    1638775, 1704311, 1769847, 1835383, 1638776, 1704312, 1769848, 1835384, 1638777, 1704313, 1769849, 1835385, 1638778, 1704314, 1769850, 1835386,
    1900838, 1966374, 1900842, 1966378, 1900844, 1966380, 1900859, 1966395, 1900888, 1966424, 1900890, 1966426, 5701632, 5767168, 5832704, 5898240,
    1114368, 1179904, 1245440, 1310976, 1376512, 1442048, 1507584, 1573120, 1114404, 1179940, 1245476, 1311012, 1376548, 1442084, 1507620, 1573156,
    1114432, 1179968, 1245504, 1311040, 1376576, 1442112, 1507648, 1573184, 1114459, 1179995, 1245531, 1311067, 1376603, 1442139, 1507675, 1573211,
    1114461, 1179997, 1245533, 1311069, 1376605, 1442141, 1507677, 1573213, 1114494, 1180030, 1245566, 1311102, 1376638, 1442174, 1507710, 1573246 >>

dfa_chunk_5_list == <<
    1638750, 1704286, 1769822, 1835358, 1638781, 1704317, 1769853, 1835389, 1900860, 1966396, 1900896, 1966432, 1900923, 1966459, 5963776, 6029312,
    1114403, 1179939, 1245475, 1311011, 1376547, 1442083, 1507619, 1573155, 1114430, 1179966, 1245502, 1311038, 1376574, 1442110, 1507646, 1573182,
    1638656, 1704192, 1769728, 1835264, 1638692, 1704228, 1769764, 1835300, 1638720, 1704256, 1769792, 1835328, 1638747, 1704283, 1769819, 1835355,
    1638749, 1704285, 1769821, 1835357, 1638782, 1704318, 1769854, 1835390, 1900894, 1966430, 1900925, 1966461, 316, 352, 379, 6094848,
    1114407, 1179943, 1245479, 1311015, 1376551, 1442087, 1507623, 1573159, 1114411, 1179947, 1245483, 1311019, 1376555, 1442091, 1507627, 1573163,
    1114492, 1180028, 1245564, 1311100, 1376636, 1442172, 1507708, 1573244, 1638691, 1704227, 1769763, 1835299, 1638718, 1704254, 1769790, 1835326,
    1900800, 1966336, 1900836, 1966372, 1900864, 1966400, 1900891, 1966427, 1900893, 1966429, 1900926, 1966462, 350, 381, 6160384, 6225920,
    1114401, 1179937, 1245473, 1311009, 1376545, 1442081, 1507617, 1573153, 1114402, 1179938, 1245474, 1311010, 1376546, 1442082, 1507618, 1573154,
    1114408, 1179944, 1245480, 1311016, 1376552, 1442088, 1507624, 1573160, 1114409, 1179945, 1245481, 1311017, 1376553, 1442089, 1507625, 1573161,
    1114431, 1179967, 1245503, 1311039, 1376575, 1442111, 1507647, 1573183, 1638695, 1704231, 1769767, 1835303, 1638699, 1704235, 1769771, 1835307,
    1638780, 1704316, 1769852, 1835388, 1900835, 1966371, 1900862, 1966398, 256, 292, 320, 347, 349, 382, 6291456, 6356992,
    1900892, 1966428, 1900995, 1966531, 1901008, 1966544, 384, 386, 387, 418, 440, 450, 480, 482, 6422528, 6488064,
    6553600, 6619136, 6684672, 6750208, 6815744, 6881280, 6946816, 7012352, 7077888, 7143424, 7208960, 7274496, 7340032, 7405568, 7471104, 7536640,
    348, 451, 464, 7602176, 7667712, 7733248, 7798784, 7864320, 7929856, 7995392, 8060928, 8126464, 8192000, 8257536, 8323072, 8388608,
    1114428, 1179964, 1245500, 1311036, 1376572, 1442108, 1507644, 1573180, 1114464, 1180000, 1245536, 1311072, 1376608, 1442144, 1507680, 1573216,
    1114491, 1180027, 1245563, 1311099, 1376635, 1442171, 1507707, 1573243, 8454144, 8519680, 8585216, 8650752, 8716288, 8781824, 8847360, 8912896 >>

dfa_chunk_6_list == <<
    1114462, 1179998, 1245534, 1311070, 1376606, 1442142, 1507678, 1573214, 1114493, 1180029, 1245565, 1311101, 1376637, 1442173, 1507709, 1573245,
    1638716, 1704252, 1769788, 1835324, 1638752, 1704288, 1769824, 1835360, 1638779, 1704315, 1769851, 1835387, 8978432, 9043968, 9109504, 9175040,
    1114521, 1180057, 1245593, 1311129, 1376665, 1442201, 1507737, 1573273, 1114529, 1180065, 1245601, 1311137, 1376673, 1442209, 1507745, 1573281,
    1114535, 1180071, 1245607, 1311143, 1376679, 1442215, 1507751, 1573287, 1114540, 1180076, 1245612, 1311148, 1376684, 1442220, 1507756, 1573292,
    1114544, 1180080, 1245616, 1311152, 1376688, 1442224, 1507760, 1573296, 1114545, 1180081, 1245617, 1311153, 1376689, 1442225, 1507761, 1573297,
    1114547, 1180083, 1245619, 1311155, 1376691, 1442227, 1507763, 1573299, 1114577, 1180113, 1245649, 1311185, 1376721, 1442257, 1507793, 1573329,
    1114584, 1180120, 1245656, 1311192, 1376728, 1442264, 1507800, 1573336, 1114585, 1180121, 1245657, 1311193, 1376729, 1442265, 1507801, 1573337,
    1114595, 1180131, 1245667, 1311203, 1376739, 1442275, 1507811, 1573347, 1114597, 1180133, 1245669, 1311205, 1376741, 1442277, 1507813, 1573349,
    1114598, 1180134, 1245670, 1311206, 1376742, 1442278, 1507814, 1573350, 1638785, 1704321, 1769857, 1835393, 1638788, 1704324, 1769860, 1835396,
    1638789, 1704325, 1769861, 1835397, 1638790, 1704326, 1769862, 1835398, 1638792, 1704328, 1769864, 1835400, 1638802, 1704338, 1769874, 1835410,
    1638810, 1704346, 1769882, 1835418, 1638812, 1704348, 1769884, 1835420, 1638816, 1704352, 1769888, 1835424, 1638819, 1704355, 1769891, 1835427,
    1638820, 1704356, 1769892, 1835428, 1638825, 1704361, 1769897, 1835433, 1638826, 1704362, 1769898, 1835434, 1638829, 1704365, 1769901, 1835437,
    1638834, 1704370, 1769906, 1835442, 1638837, 1704373, 1769909, 1835445, 1638841, 1704377, 1769913, 1835449, 1638842, 1704378, 1769914, 1835450,
    1638843, 1704379, 1769915, 1835451, 1638845, 1704381, 1769917, 1835453, 1638846, 1704382, 1769918, 1835454, 1638852, 1704388, 1769924, 1835460,
    1638854, 1704390, 1769926, 1835462, 1638884, 1704420, 1769956, 1835492, 1638888, 1704424, 1769960, 1835496, 1638889, 1704425, 1769961, 1835497,
    1900801, 1966337, 1900935, 1966471, 1900937, 1966473, 1900938, 1966474, 1900939, 1966475, 1900940, 1966476, 1900941, 1966477, 1900943, 1966479 >>

dfa_chunk_7_list == <<
    1900947, 1966483, 1900949, 1966485, 1900950, 1966486, 1900951, 1966487, 1900952, 1966488, 1900955, 1966491, 1900957, 1966493, 1900958, 1966494,
    1900965, 1966501, 1900966, 1966502, 1900968, 1966504, 1900974, 1966510, 1900975, 1966511, 1900980, 1966516, 1900982, 1966518, 1900983, 1966519,
    1900988, 1966524, 1900991, 1966527, 1900997, 1966533, 1901031, 1966567, 1901039, 1966575, 265, 398, 400, 401, 404, 415,
    427, 462, 471, 481, 492, 493, 9240576, 9306112, 9371648, 9437184, 9502720, 9568256, 9633792, 9699328, 9764864, 9830400,
    1114496, 1180032, 1245568, 1311104, 1376640, 1442176, 1507712, 1573248, 1114498, 1180034, 1245570, 1311106, 1376642, 1442178, 1507714, 1573250,
    1114499, 1180035, 1245571, 1311107, 1376643, 1442179, 1507715, 1573251, 1114530, 1180066, 1245602, 1311138, 1376674, 1442210, 1507746, 1573282,
    1114552, 1180088, 1245624, 1311160, 1376696, 1442232, 1507768, 1573304, 1114562, 1180098, 1245634, 1311170, 1376706, 1442242, 1507778, 1573314,
    1114592, 1180128, 1245664, 1311200, 1376736, 1442272, 1507808, 1573344, 1114594, 1180130, 1245666, 1311202, 1376738, 1442274, 1507810, 1573346,
    1638809, 1704345, 1769881, 1835417, 1638817, 1704353, 1769889, 1835425, 1638823, 1704359, 1769895, 1835431, 1638828, 1704364, 1769900, 1835436,
    1638832, 1704368, 1769904, 1835440, 1638833, 1704369, 1769905, 1835441, 1638835, 1704371, 1769907, 1835443, 1638865, 1704401, 1769937, 1835473,
    1638872, 1704408, 1769944, 1835480, 1638873, 1704409, 1769945, 1835481, 1638883, 1704419, 1769955, 1835491, 1638885, 1704421, 1769957, 1835493,
    1638886, 1704422, 1769958, 1835494, 1900929, 1966465, 1900932, 1966468, 1900933, 1966469, 1900934, 1966470, 1900936, 1966472, 1900946, 1966482,
    1900954, 1966490, 1900956, 1966492, 1900960, 1966496, 1900963, 1966499, 1900964, 1966500, 1900969, 1966505, 1900970, 1966506, 1900973, 1966509,
    1900978, 1966514, 1900981, 1966517, 1900985, 1966521, 1900986, 1966522, 1900987, 1966523, 1900989, 1966525, 1900990, 1966526, 1900996, 1966532,
    1900998, 1966534, 1901028, 1966564, 1901032, 1966568, 1901033, 1966569, 257, 391, 393, 394, 395, 396, 397, 399,
    403, 405, 406, 407, 408, 411, 413, 414, 421, 422, 424, 430, 431, 436, 438, 439 >>

dfa_chunk_8_list == <<
    444, 447, 453, 487, 495, 9895936, 9961472, 10027008, 10092544, 10158080, 10223616, 10289152, 10354688, 10420224, 10485760, 10551296,
    1114460, 1179996, 1245532, 1311068, 1376604, 1442140, 1507676, 1573212, 1114563, 1180099, 1245635, 1311171, 1376707, 1442243, 1507779, 1573315,
    1114576, 1180112, 1245648, 1311184, 1376720, 1442256, 1507792, 1573328, 1638784, 1704320, 1769856, 1835392, 1638786, 1704322, 1769858, 1835394,
    1638787, 1704323, 1769859, 1835395, 1638818, 1704354, 1769890, 1835426, 1638840, 1704376, 1769912, 1835448, 1638850, 1704386, 1769922, 1835458,
    1638880, 1704416, 1769952, 1835488, 1638882, 1704418, 1769954, 1835490, 1900953, 1966489, 1900961, 1966497, 1900967, 1966503, 1900972, 1966508,
    1900976, 1966512, 1900977, 1966513, 1900979, 1966515, 1901009, 1966545, 1901016, 1966552, 1901017, 1966553, 1901027, 1966563, 1901029, 1966565,
    1901030, 1966566, 385, 388, 389, 390, 392, 402, 410, 412, 416, 419, 420, 425, 426, 429,
    434, 437, 441, 442, 443, 445, 446, 452, 454, 484, 488, 489, 10616832, 10682368, 10747904, 10813440,
    10878976, 10944512, 11010048, 11075584, 11141120, 11206656, 11272192, 11337728, 11403264, 11468800, 11534336, 11599872, 11665408, 11730944, 11796480, 11862016,
    1638748, 1704284, 1769820, 1835356, 1638851, 1704387, 1769923, 1835459, 1638864, 1704400, 1769936, 1835472, 1900928, 1966464, 1900930, 1966466,
    1900931, 1966467, 1900962, 1966498, 1900984, 1966520, 1900994, 1966530, 1901024, 1966560, 1901026, 1966562, 409, 417, 423, 428,
    432, 433, 435, 465, 472, 473, 483, 485, 486, 11927552, 11993088, 12058624, 12124160, 12189696, 12255232, 12320768,
    12386304, 12451840, 12517376, 12582912, 12648448, 12713984, 12779520, 12845056, 12910592, 12976128, 13041664, 13107200, 13172736, 13238272, 13303808, 13369344,
    1114567, 1180103, 1245639, 1311175, 1376711, 1442247, 1507783, 1573319, 1114575, 1180111, 1245647, 1311183, 1376719, 1442255, 1507791, 1573327,
    1114602, 1180138, 1245674, 1311210, 1376746, 1442282, 1507818, 1573354, 1114603, 1180139, 1245675, 1311211, 1376747, 1442283, 1507819, 1573355,
    1638848, 1704384, 1769920, 1835456, 1638849, 1704385, 1769921, 1835457, 1638856, 1704392, 1769928, 1835464, 1638857, 1704393, 1769929, 1835465 >>

dfa_chunk_9_list == <<
    1638858, 1704394, 1769930, 1835466, 1638861, 1704397, 1769933, 1835469, 1638866, 1704402, 1769938, 1835474, 1638869, 1704405, 1769941, 1835477,
    1638874, 1704410, 1769946, 1835482, 1638875, 1704411, 1769947, 1835483, 1638894, 1704430, 1769966, 1835502, 1638896, 1704432, 1769968, 1835504,
    1638898, 1704434, 1769970, 1835506, 1638899, 1704435, 1769971, 1835507, 1638911, 1704447, 1769983, 1835519, 1901003, 1966539, 1901004, 1966540,
    1901011, 1966547, 1901012, 1966548, 1901014, 1966550, 1901021, 1966557, 1901022, 1966558, 1901023, 1966559, 1901041, 1966577, 1901044, 1966580,
    1901045, 1966581, 1901046, 1966582, 1901047, 1966583, 1901048, 1966584, 1901050, 1966586, 1901051, 1966587, 1901052, 1966588, 1901053, 1966589,
    1901054, 1966590, 258, 259, 260, 261, 262, 263, 264, 267, 268, 270, 271, 272, 273, 274,
    275, 276, 277, 279, 280, 281, 282, 283, 284, 285, 286, 287, 383, 476, 505, 13434880,
    1114377, 1179913, 1245449, 1310985, 1376521, 1442057, 1507593, 1573129, 1114510, 1180046, 1245582, 1311118, 1376654, 1442190, 1507726, 1573262,
    1114512, 1180048, 1245584, 1311120, 1376656, 1442192, 1507728, 1573264, 1114513, 1180049, 1245585, 1311121, 1376657, 1442193, 1507729, 1573265,
    1114516, 1180052, 1245588, 1311124, 1376660, 1442196, 1507732, 1573268, 1114527, 1180063, 1245599, 1311135, 1376671, 1442207, 1507743, 1573279,
    1114539, 1180075, 1245611, 1311147, 1376683, 1442219, 1507755, 1573291, 1114574, 1180110, 1245646, 1311182, 1376718, 1442254, 1507790, 1573326,
    1114583, 1180119, 1245655, 1311191, 1376727, 1442263, 1507799, 1573335, 1114593, 1180129, 1245665, 1311201, 1376737, 1442273, 1507809, 1573345,
    1114604, 1180140, 1245676, 1311212, 1376748, 1442284, 1507820, 1573356, 1114605, 1180141, 1245677, 1311213, 1376749, 1442285, 1507821, 1573357,
    1638855, 1704391, 1769927, 1835463, 1638863, 1704399, 1769935, 1835471, 1638890, 1704426, 1769962, 1835498, 1638891, 1704427, 1769963, 1835499,
    1900992, 1966528, 1900993, 1966529, 1901000, 1966536, 1901001, 1966537, 1901002, 1966538, 1901005, 1966541, 1901010, 1966546, 1901013, 1966549,
    1901018, 1966554, 1901019, 1966555, 1901038, 1966574, 1901040, 1966576, 1901042, 1966578, 1901043, 1966579, 1901055, 1966591, 459, 460 >>

dfa_chunk_10_list == <<
    467, 468, 470, 477, 478, 479, 497, 500, 501, 502, 503, 504, 506, 507, 508, 509,
    510, 13500416, 13565952, 13631488, 13697024, 13762560, 13828096, 13893632, 13959168, 14024704, 14090240, 14155776, 14221312, 14286848, 14352384, 14417920,
    1114369, 1179905, 1245441, 1310977, 1376513, 1442049, 1507585, 1573121, 1114503, 1180039, 1245575, 1311111, 1376647, 1442183, 1507719, 1573255,
    1114505, 1180041, 1245577, 1311113, 1376649, 1442185, 1507721, 1573257, 1114506, 1180042, 1245578, 1311114, 1376650, 1442186, 1507722, 1573258,
    1114507, 1180043, 1245579, 1311115, 1376651, 1442187, 1507723, 1573259, 1114508, 1180044, 1245580, 1311116, 1376652, 1442188, 1507724, 1573260,
    1114509, 1180045, 1245581, 1311117, 1376653, 1442189, 1507725, 1573261, 1114511, 1180047, 1245583, 1311119, 1376655, 1442191, 1507727, 1573263,
    1114515, 1180051, 1245587, 1311123, 1376659, 1442195, 1507731, 1573267, 1114517, 1180053, 1245589, 1311125, 1376661, 1442197, 1507733, 1573269,
    1114518, 1180054, 1245590, 1311126, 1376662, 1442198, 1507734, 1573270, 1114519, 1180055, 1245591, 1311127, 1376663, 1442199, 1507735, 1573271,
    1114520, 1180056, 1245592, 1311128, 1376664, 1442200, 1507736, 1573272, 1114523, 1180059, 1245595, 1311131, 1376667, 1442203, 1507739, 1573275,
    1114525, 1180061, 1245597, 1311133, 1376669, 1442205, 1507741, 1573277, 1114526, 1180062, 1245598, 1311134, 1376670, 1442206, 1507742, 1573278,
    1114533, 1180069, 1245605, 1311141, 1376677, 1442213, 1507749, 1573285, 1114534, 1180070, 1245606, 1311142, 1376678, 1442214, 1507750, 1573286,
    1114536, 1180072, 1245608, 1311144, 1376680, 1442216, 1507752, 1573288, 1114542, 1180078, 1245614, 1311150, 1376686, 1442222, 1507758, 1573294,
    1114543, 1180079, 1245615, 1311151, 1376687, 1442223, 1507759, 1573295, 1114548, 1180084, 1245620, 1311156, 1376692, 1442228, 1507764, 1573300,
    1114550, 1180086, 1245622, 1311158, 1376694, 1442230, 1507766, 1573302, 1114551, 1180087, 1245623, 1311159, 1376695, 1442231, 1507767, 1573303,
    1114556, 1180092, 1245628, 1311164, 1376700, 1442236, 1507772, 1573308, 1114559, 1180095, 1245631, 1311167, 1376703, 1442239, 1507775, 1573311,
    1114565, 1180101, 1245637, 1311173, 1376709, 1442245, 1507781, 1573317, 1114599, 1180135, 1245671, 1311207, 1376743, 1442279, 1507815, 1573351 >>

dfa_chunk_11_list == <<
    1114607, 1180143, 1245679, 1311215, 1376751, 1442287, 1507823, 1573359, 1638665, 1704201, 1769737, 1835273, 1638798, 1704334, 1769870, 1835406,
    1638800, 1704336, 1769872, 1835408, 1638801, 1704337, 1769873, 1835409, 1638804, 1704340, 1769876, 1835412, 1638815, 1704351, 1769887, 1835423,
    1638827, 1704363, 1769899, 1835435, 1638862, 1704398, 1769934, 1835470, 1638871, 1704407, 1769943, 1835479, 1638881, 1704417, 1769953, 1835489,
    1638892, 1704428, 1769964, 1835500, 1638893, 1704429, 1769965, 1835501, 1900999, 1966535, 1901007, 1966543, 1901034, 1966570, 1901035, 1966571,
    448, 449, 456, 457, 458, 461, 466, 469, 474, 475, 494, 496, 498, 499, 511, 14483456,
    14548992, 14614528, 14680064, 14745600, 14811136, 14876672, 14942208, 15007744, 15073280, 15138816, 15204352, 15269888, 15335424, 15400960, 15466496, 15532032,
    1114497, 1180033, 1245569, 1311105, 1376641, 1442177, 1507713, 1573249, 1114500, 1180036, 1245572, 1311108, 1376644, 1442180, 1507716, 1573252,
    1114501, 1180037, 1245573, 1311109, 1376645, 1442181, 1507717, 1573253, 1114502, 1180038, 1245574, 1311110, 1376646, 1442182, 1507718, 1573254,
    1114504, 1180040, 1245576, 1311112, 1376648, 1442184, 1507720, 1573256, 1114514, 1180050, 1245586, 1311122, 1376658, 1442194, 1507730, 1573266,
    1114522, 1180058, 1245594, 1311130, 1376666, 1442202, 1507738, 1573274, 1114524, 1180060, 1245596, 1311132, 1376668, 1442204, 1507740, 1573276,
    1114528, 1180064, 1245600, 1311136, 1376672, 1442208, 1507744, 1573280, 1114531, 1180067, 1245603, 1311139, 1376675, 1442211, 1507747, 1573283,
    1114532, 1180068, 1245604, 1311140, 1376676, 1442212, 1507748, 1573284, 1114537, 1180073, 1245609, 1311145, 1376681, 1442217, 1507753, 1573289,
    1114538, 1180074, 1245610, 1311146, 1376682, 1442218, 1507754, 1573290, 1114541, 1180077, 1245613, 1311149, 1376685, 1442221, 1507757, 1573293,
    1114546, 1180082, 1245618, 1311154, 1376690, 1442226, 1507762, 1573298, 1114549, 1180085, 1245621, 1311157, 1376693, 1442229, 1507765, 1573301,
    1114553, 1180089, 1245625, 1311161, 1376697, 1442233, 1507769, 1573305, 1114554, 1180090, 1245626, 1311162, 1376698, 1442234, 1507770, 1573306,
    1114555, 1180091, 1245627, 1311163, 1376699, 1442235, 1507771, 1573307, 1114557, 1180093, 1245629, 1311165, 1376701, 1442237, 1507773, 1573309 >>

dfa_chunk_12_list == <<
    1114558, 1180094, 1245630, 1311166, 1376702, 1442238, 1507774, 1573310, 1114564, 1180100, 1245636, 1311172, 1376708, 1442244, 1507780, 1573316,
    1114566, 1180102, 1245638, 1311174, 1376710, 1442246, 1507782, 1573318, 1114596, 1180132, 1245668, 1311204, 1376740, 1442276, 1507812, 1573348,
    1114600, 1180136, 1245672, 1311208, 1376744, 1442280, 1507816, 1573352, 1114601, 1180137, 1245673, 1311209, 1376745, 1442281, 1507817, 1573353,
    1638657, 1704193, 1769729, 1835265, 1638791, 1704327, 1769863, 1835399, 1638793, 1704329, 1769865, 1835401, 1638794, 1704330, 1769866, 1835402,
    1638795, 1704331, 1769867, 1835403, 1638796, 1704332, 1769868, 1835404, 1638797, 1704333, 1769869, 1835405, 1638799, 1704335, 1769871, 1835407,
    1638803, 1704339, 1769875, 1835411, 1638805, 1704341, 1769877, 1835413, 1638806, 1704342, 1769878, 1835414, 1638807, 1704343, 1769879, 1835415,
    1638808, 1704344, 1769880, 1835416, 1638811, 1704347, 1769883, 1835419, 1638813, 1704349, 1769885, 1835421, 1638814, 1704350, 1769886, 1835422,
    1638821, 1704357, 1769893, 1835429, 1638822, 1704358, 1769894, 1835430, 1638824, 1704360, 1769896, 1835432, 1638830, 1704366, 1769902, 1835438,
    1638831, 1704367, 1769903, 1835439, 1638836, 1704372, 1769908, 1835444, 1638838, 1704374, 1769910, 1835446, 1638839, 1704375, 1769911, 1835447,
    1638844, 1704380, 1769916, 1835452, 1638847, 1704383, 1769919, 1835455, 1638853, 1704389, 1769925, 1835461, 1638887, 1704423, 1769959, 1835495,
    1638895, 1704431, 1769967, 1835503, 1900809, 1966345, 1900942, 1966478, 1900944, 1966480, 1900945, 1966481, 1900948, 1966484, 1900959, 1966495,
    1900971, 1966507, 1901006, 1966542, 1901015, 1966551, 1901025, 1966561, 1901036, 1966572, 1901037, 1966573, 455, 463, 490, 491,
    15597568, 15663104, 15728640, 15794176, 15859712, 15925248, 15990784, 16056320, 16121856, 16187392, 16252928, 16318464, 16384000, 16449536, 16515072, 16580608,
    1638666, 1704202, 1769738, 1835274, 1638669, 1704205, 1769741, 1835277, 1638678, 1704214, 1769750, 1835286, 16777216, 16777216, 16777216, 16777216,
    1114370, 1179906, 1245442, 1310978, 1376514, 1442050, 1507586, 1573122, 1114371, 1179907, 1245443, 1310979, 1376515, 1442051, 1507587, 1573123,
    1114372, 1179908, 1245444, 1310980, 1376516, 1442052, 1507588, 1573124, 1114373, 1179909, 1245445, 1310981, 1376517, 1442053, 1507589, 1573125 >>

dfa_chunk_13_list == <<
    1114374, 1179910, 1245446, 1310982, 1376518, 1442054, 1507590, 1573126, 1114375, 1179911, 1245447, 1310983, 1376519, 1442055, 1507591, 1573127,
    1114376, 1179912, 1245448, 1310984, 1376520, 1442056, 1507592, 1573128, 1114379, 1179915, 1245451, 1310987, 1376523, 1442059, 1507595, 1573131,
    1114380, 1179916, 1245452, 1310988, 1376524, 1442060, 1507596, 1573132, 1114382, 1179918, 1245454, 1310990, 1376526, 1442062, 1507598, 1573134,
    1114383, 1179919, 1245455, 1310991, 1376527, 1442063, 1507599, 1573135, 1114384, 1179920, 1245456, 1310992, 1376528, 1442064, 1507600, 1573136,
    1114385, 1179921, 1245457, 1310993, 1376529, 1442065, 1507601, 1573137, 1114386, 1179922, 1245458, 1310994, 1376530, 1442066, 1507602, 1573138,
    1114387, 1179923, 1245459, 1310995, 1376531, 1442067, 1507603, 1573139, 1114388, 1179924, 1245460, 1310996, 1376532, 1442068, 1507604, 1573140,
    1114389, 1179925, 1245461, 1310997, 1376533, 1442069, 1507605, 1573141, 1114391, 1179927, 1245463, 1310999, 1376535, 1442071, 1507607, 1573143,
    1114392, 1179928, 1245464, 1311000, 1376536, 1442072, 1507608, 1573144, 1114393, 1179929, 1245465, 1311001, 1376537, 1442073, 1507609, 1573145,
    1114394, 1179930, 1245466, 1311002, 1376538, 1442074, 1507610, 1573146, 1114395, 1179931, 1245467, 1311003, 1376539, 1442075, 1507611, 1573147,
    1114396, 1179932, 1245468, 1311004, 1376540, 1442076, 1507612, 1573148, 1114397, 1179933, 1245469, 1311005, 1376541, 1442077, 1507613, 1573149,
    1114398, 1179934, 1245470, 1311006, 1376542, 1442078, 1507614, 1573150, 1114399, 1179935, 1245471, 1311007, 1376543, 1442079, 1507615, 1573151,
    1114495, 1180031, 1245567, 1311103, 1376639, 1442175, 1507711, 1573247, 1114588, 1180124, 1245660, 1311196, 1376732, 1442268, 1507804, 1573340,
    1114617, 1180153, 1245689, 1311225, 1376761, 1442297, 1507833, 1573369, 1900810, 1966346, 1900813, 1966349, 1900822, 1966358, 16777216, 16777216,
    1114571, 1180107, 1245643, 1311179, 1376715, 1442251, 1507787, 1573323, 1114572, 1180108, 1245644, 1311180, 1376716, 1442252, 1507788, 1573324,
    1114579, 1180115, 1245651, 1311187, 1376723, 1442259, 1507795, 1573331, 1114580, 1180116, 1245652, 1311188, 1376724, 1442260, 1507796, 1573332,
    1114582, 1180118, 1245654, 1311190, 1376726, 1442262, 1507798, 1573334, 1114589, 1180125, 1245661, 1311197, 1376733, 1442269, 1507805, 1573341 >>

dfa_chunk_14_list == <<
    1114590, 1180126, 1245662, 1311198, 1376734, 1442270, 1507806, 1573342, 1114591, 1180127, 1245663, 1311199, 1376735, 1442271, 1507807, 1573343,
    1114609, 1180145, 1245681, 1311217, 1376753, 1442289, 1507825, 1573361, 1114612, 1180148, 1245684, 1311220, 1376756, 1442292, 1507828, 1573364,
    1114613, 1180149, 1245685, 1311221, 1376757, 1442293, 1507829, 1573365, 1114614, 1180150, 1245686, 1311222, 1376758, 1442294, 1507830, 1573366,
    1114615, 1180151, 1245687, 1311223, 1376759, 1442295, 1507831, 1573367, 1114616, 1180152, 1245688, 1311224, 1376760, 1442296, 1507832, 1573368,
    1114618, 1180154, 1245690, 1311226, 1376762, 1442298, 1507834, 1573370, 1114619, 1180155, 1245691, 1311227, 1376763, 1442299, 1507835, 1573371,
    1114620, 1180156, 1245692, 1311228, 1376764, 1442300, 1507836, 1573372, 1114621, 1180157, 1245693, 1311229, 1376765, 1442301, 1507837, 1573373,
    1114622, 1180158, 1245694, 1311230, 1376766, 1442302, 1507838, 1573374, 1638658, 1704194, 1769730, 1835266, 1638659, 1704195, 1769731, 1835267,
    1638660, 1704196, 1769732, 1835268, 1638661, 1704197, 1769733, 1835269, 1638662, 1704198, 1769734, 1835270, 1638663, 1704199, 1769735, 1835271,
    1638664, 1704200, 1769736, 1835272, 1638667, 1704203, 1769739, 1835275, 1638668, 1704204, 1769740, 1835276, 1638670, 1704206, 1769742, 1835278,
    1638671, 1704207, 1769743, 1835279, 1638672, 1704208, 1769744, 1835280, 1638673, 1704209, 1769745, 1835281, 1638674, 1704210, 1769746, 1835282,
    1638675, 1704211, 1769747, 1835283, 1638676, 1704212, 1769748, 1835284, 1638677, 1704213, 1769749, 1835285, 1638679, 1704215, 1769751, 1835287,
    1638680, 1704216, 1769752, 1835288, 1638681, 1704217, 1769753, 1835289, 1638682, 1704218, 1769754, 1835290, 1638683, 1704219, 1769755, 1835291,
    1638684, 1704220, 1769756, 1835292, 1638685, 1704221, 1769757, 1835293, 1638686, 1704222, 1769758, 1835294, 1638687, 1704223, 1769759, 1835295,
    1638783, 1704319, 1769855, 1835391, 1638876, 1704412, 1769948, 1835484, 1638905, 1704441, 1769977, 1835513, 266, 269, 278, 16777216,
    1114560, 1180096, 1245632, 1311168, 1376704, 1442240, 1507776, 1573312, 1114561, 1180097, 1245633, 1311169, 1376705, 1442241, 1507777, 1573313,
    1114568, 1180104, 1245640, 1311176, 1376712, 1442248, 1507784, 1573320, 1114569, 1180105, 1245641, 1311177, 1376713, 1442249, 1507785, 1573321 >>

dfa_chunk_15_list == <<
    1114570, 1180106, 1245642, 1311178, 1376714, 1442250, 1507786, 1573322, 1114573, 1180109, 1245645, 1311181, 1376717, 1442253, 1507789, 1573325,
    1114578, 1180114, 1245650, 1311186, 1376722, 1442258, 1507794, 1573330, 1114581, 1180117, 1245653, 1311189, 1376725, 1442261, 1507797, 1573333,
    1114586, 1180122, 1245658, 1311194, 1376730, 1442266, 1507802, 1573338, 1114587, 1180123, 1245659, 1311195, 1376731, 1442267, 1507803, 1573339,
    1114606, 1180142, 1245678, 1311214, 1376750, 1442286, 1507822, 1573358, 1114608, 1180144, 1245680, 1311216, 1376752, 1442288, 1507824, 1573360,
    1114610, 1180146, 1245682, 1311218, 1376754, 1442290, 1507826, 1573362, 1114611, 1180147, 1245683, 1311219, 1376755, 1442291, 1507827, 1573363,
    1114623, 1180159, 1245695, 1311231, 1376767, 1442303, 1507839, 1573375, 1638859, 1704395, 1769931, 1835467, 1638860, 1704396, 1769932, 1835468,
    1638867, 1704403, 1769939, 1835475, 1638868, 1704404, 1769940, 1835476, 1638870, 1704406, 1769942, 1835478, 1638877, 1704413, 1769949, 1835485,
    1638878, 1704414, 1769950, 1835486, 1638879, 1704415, 1769951, 1835487, 1638897, 1704433, 1769969, 1835505, 1638900, 1704436, 1769972, 1835508,
    1638901, 1704437, 1769973, 1835509, 1638902, 1704438, 1769974, 1835510, 1638903, 1704439, 1769975, 1835511, 1638904, 1704440, 1769976, 1835512,
    1638906, 1704442, 1769978, 1835514, 1638907, 1704443, 1769979, 1835515, 1638908, 1704444, 1769980, 1835516, 1638909, 1704445, 1769981, 1835517,
    1638910, 1704446, 1769982, 1835518, 1900802, 1966338, 1900803, 1966339, 1900804, 1966340, 1900805, 1966341, 1900806, 1966342, 1900807, 1966343,
    1900808, 1966344, 1900811, 1966347, 1900812, 1966348, 1900814, 1966350, 1900815, 1966351, 1900816, 1966352, 1900817, 1966353, 1900818, 1966354,
    1900819, 1966355, 1900820, 1966356, 1900821, 1966357, 1900823, 1966359, 1900824, 1966360, 1900825, 1966361, 1900826, 1966362, 1900827, 1966363,
    1900828, 1966364, 1900829, 1966365, 1900830, 1966366, 1900831, 1966367, 1900927, 1966463, 1901020, 1966556, 1901049, 1966585, 16646144, 16711680,
    1114378, 1179914, 1245450, 1310986, 1376522, 1442058, 1507594, 1573130, 1114381, 1179917, 1245453, 1310989, 1376525, 1442061, 1507597, 1573133,
    1114390, 1179926, 1245462, 1310998, 1376534, 1442070, 1507606, 1573142, 16777216, 16777216, 16777216, 16777216, 16777216, 16777216, 16777216, 16777216 >>

dfa_accept_list == <<
    1, 0, 0, 0, 0, 0, 0, 0, 0, 0, 0, 0, 0, 0, 0, 0, 1, 0, 0, 0, 0, 0, 0, 0, 1, 0, 0, 0, 1, 0, 1, 0,
    0, 0, 0, 0, 1, 0, 0, 0, 0, 0, 0, 0, 0, 0, 0, 0, 0, 0, 0, 0, 0, 0, 1, 0, 0, 0, 0, 0, 0, 0, 0, 0,
    0, 0, 0, 0, 0, 0, 0, 0, 0, 0, 0, 0, 1, 0, 0, 0, 0, 0, 0, 0, 0, 0, 0, 0, 0, 0, 0, 0, 0, 0, 0, 0,
    0, 0, 0, 0, 0, 0, 0, 0, 0, 0, 0, 0, 0, 0, 0, 0, 0, 0, 0, 0, 0, 0, 0, 0, 0, 0, 0, 0, 0, 0, 0, 0,
    0, 0, 0, 0, 0, 0, 0, 0, 0, 0, 0, 0, 0, 0, 0, 0, 0, 0, 0, 0, 0, 0, 0, 0, 0, 0, 0, 0, 0, 0, 0, 0,
    0, 0, 0, 0, 0, 0, 0, 0, 0, 0, 0, 0, 0, 0, 0, 0, 0, 0, 0, 0, 0, 0, 0, 0, 0, 0, 0, 0, 0, 0, 0, 0,
    0, 0, 0, 0, 0, 0, 0, 0, 0, 0, 0, 0, 0, 0, 0, 0, 0, 0, 0, 0, 0, 0, 0, 0, 0, 0, 0, 0, 0, 0, 0, 0,
    0, 0, 0, 0, 0, 0, 0, 0, 0, 0, 0, 0, 0, 0, 0, 0, 0, 0, 0, 0, 0, 0, 0, 0, 0, 0, 0, 0, 0, 0, 0, 0 >>

dfa_chunk_list ==
    << dfa_chunk_0_list, dfa_chunk_1_list, dfa_chunk_2_list, dfa_chunk_3_list,
       dfa_chunk_4_list, dfa_chunk_5_list, dfa_chunk_6_list, dfa_chunk_7_list,
       dfa_chunk_8_list, dfa_chunk_9_list, dfa_chunk_10_list, dfa_chunk_11_list,
       dfa_chunk_12_list, dfa_chunk_13_list, dfa_chunk_14_list, dfa_chunk_15_list >>

(* The three tables as the C program indexes them, from 0. *)
shipped_chunk  == [k \in 0..15 |-> [off \in 0..255 |-> dfa_chunk_list[k + 1][off + 1]]]
shipped_accept == [id \in 0..255 |-> dfa_accept_list[id + 1]]
shipped_keys   == [id \in 0..255 |->
                     code_to_bits(dfa_state_keys[id + 1][1], dfa_state_keys[id + 1][2])]
====
