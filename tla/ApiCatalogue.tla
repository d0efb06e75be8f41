---------------------------- MODULE ApiCatalogue ----------------------------
(***************************************************************************)
(* The function metadata of generated.rs, in its order, that of the bytes  *)
(* of the names: each function with the number of its parameters.  What    *)
(* else the table holds (types and names of parameters, versions) is read  *)
(* by no part of the plugin and left out.                                  *)
(***************************************************************************)
EXTENDS Sequences

BufferFunctions ==
    << <<"buffer_add_highlight", 6>>, <<"buffer_clear_highlight", 4>>, <<"buffer_del_line", 2>>,
       <<"buffer_del_var", 2>>, <<"buffer_get_line", 2>>, <<"buffer_get_line_slice", 5>>,
       <<"buffer_get_lines", 4>>, <<"buffer_get_mark", 2>>, <<"buffer_get_name", 1>>,
       <<"buffer_get_number", 1>>, <<"buffer_get_option", 2>>, <<"buffer_get_var", 2>>,
       <<"buffer_insert", 3>>, <<"buffer_is_valid", 1>>, <<"buffer_line_count", 1>>,
       <<"buffer_set_line", 3>>, <<"buffer_set_line_slice", 6>>, <<"buffer_set_lines", 5>>,
       <<"buffer_set_name", 2>>, <<"buffer_set_option", 3>>, <<"buffer_set_var", 3>> >>

NvimBufFunctions ==
    << <<"nvim_buf_add_highlight", 6>>, <<"nvim_buf_attach", 3>>, <<"nvim_buf_call", 2>>,
       <<"nvim_buf_clear_highlight", 4>>, <<"nvim_buf_clear_namespace", 4>>,
       <<"nvim_buf_create_user_command", 4>>, <<"nvim_buf_del_extmark", 3>>,
       <<"nvim_buf_del_keymap", 3>>, <<"nvim_buf_del_mark", 2>>,
       <<"nvim_buf_del_user_command", 2>>, <<"nvim_buf_del_var", 2>>, <<"nvim_buf_delete", 2>>,
       <<"nvim_buf_detach", 1>>, <<"nvim_buf_get_changedtick", 1>>, <<"nvim_buf_get_commands", 2>>,
       <<"nvim_buf_get_extmark_by_id", 4>>, <<"nvim_buf_get_extmarks", 5>>,
       <<"nvim_buf_get_keymap", 2>>, <<"nvim_buf_get_lines", 4>>, <<"nvim_buf_get_mark", 2>>,
       <<"nvim_buf_get_name", 1>>, <<"nvim_buf_get_number", 1>>, <<"nvim_buf_get_offset", 2>>,
       <<"nvim_buf_get_option", 2>>, <<"nvim_buf_get_text", 6>>, <<"nvim_buf_get_var", 2>>,
       <<"nvim_buf_is_loaded", 1>>, <<"nvim_buf_is_valid", 1>>, <<"nvim_buf_line_count", 1>>,
       <<"nvim_buf_set_extmark", 5>>, <<"nvim_buf_set_keymap", 5>>, <<"nvim_buf_set_lines", 5>>,
       <<"nvim_buf_set_mark", 5>>, <<"nvim_buf_set_name", 2>>, <<"nvim_buf_set_option", 3>>,
       <<"nvim_buf_set_text", 6>>, <<"nvim_buf_set_var", 3>>, <<"nvim_buf_set_virtual_text", 5>> >>

NvimCallToFeedkeys ==
    << <<"nvim_call_atomic", 1>>, <<"nvim_call_dict_function", 3>>, <<"nvim_call_function", 2>>,
       <<"nvim_chan_send", 2>>, <<"nvim_clear_autocmds", 1>>, <<"nvim_cmd", 2>>,
       <<"nvim_command", 1>>, <<"nvim_command_output", 1>>, <<"nvim_create_augroup", 2>>,
       <<"nvim_create_autocmd", 2>>, <<"nvim_create_buf", 2>>, <<"nvim_create_namespace", 1>>,
       <<"nvim_create_user_command", 3>>, <<"nvim_del_augroup_by_id", 1>>,
       <<"nvim_del_augroup_by_name", 1>>, <<"nvim_del_autocmd", 1>>,
       <<"nvim_del_current_line", 0>>, <<"nvim_del_keymap", 2>>, <<"nvim_del_mark", 1>>,
       <<"nvim_del_user_command", 1>>, <<"nvim_del_var", 1>>, <<"nvim_echo", 3>>,
       <<"nvim_err_write", 1>>, <<"nvim_err_writeln", 1>>, <<"nvim_eval", 1>>,
       <<"nvim_eval_statusline", 2>>, <<"nvim_exec", 2>>, <<"nvim_exec2", 2>>,
       <<"nvim_exec_autocmds", 2>>, <<"nvim_exec_lua", 2>>, <<"nvim_execute_lua", 2>>,
       <<"nvim_feedkeys", 3>> >>

NvimGetToLoad ==
    << <<"nvim_get_all_options_info", 0>>, <<"nvim_get_api_info", 0>>, <<"nvim_get_autocmds", 1>>,
       <<"nvim_get_chan_info", 1>>, <<"nvim_get_color_by_name", 1>>, <<"nvim_get_color_map", 0>>,
       <<"nvim_get_commands", 1>>, <<"nvim_get_context", 1>>, <<"nvim_get_current_buf", 0>>,
       <<"nvim_get_current_line", 0>>, <<"nvim_get_current_tabpage", 0>>,
       <<"nvim_get_current_win", 0>>, <<"nvim_get_hl", 2>>, <<"nvim_get_hl_by_id", 2>>,
       <<"nvim_get_hl_by_name", 2>>, <<"nvim_get_hl_id_by_name", 1>>, <<"nvim_get_hl_ns", 1>>,
       <<"nvim_get_keymap", 1>>, <<"nvim_get_mark", 2>>, <<"nvim_get_mode", 0>>,
       <<"nvim_get_namespaces", 0>>, <<"nvim_get_option", 1>>, <<"nvim_get_option_info", 1>>,
       <<"nvim_get_option_info2", 2>>, <<"nvim_get_option_value", 2>>, <<"nvim_get_proc", 1>>,
       <<"nvim_get_proc_children", 1>>, <<"nvim_get_runtime_file", 2>>, <<"nvim_get_var", 1>>,
       <<"nvim_get_vvar", 1>>, <<"nvim_input", 1>>, <<"nvim_input_mouse", 6>>,
       <<"nvim_list_bufs", 0>>, <<"nvim_list_chans", 0>>, <<"nvim_list_runtime_paths", 0>>,
       <<"nvim_list_tabpages", 0>>, <<"nvim_list_uis", 0>>, <<"nvim_list_wins", 0>>,
       <<"nvim_load_context", 1>> >>

NvimNotifyToSubscribe ==
    << <<"nvim_notify", 3>>, <<"nvim_open_tabpage", 3>>, <<"nvim_open_term", 2>>,
       <<"nvim_open_win", 3>>, <<"nvim_out_write", 1>>, <<"nvim_parse_cmd", 2>>,
       <<"nvim_parse_expression", 3>>, <<"nvim_paste", 3>>, <<"nvim_put", 4>>,
       <<"nvim_replace_termcodes", 4>>, <<"nvim_select_popupmenu_item", 4>>,
       <<"nvim_set_client_info", 5>>, <<"nvim_set_current_buf", 1>>, <<"nvim_set_current_dir", 1>>,
       <<"nvim_set_current_line", 1>>, <<"nvim_set_current_tabpage", 1>>,
       <<"nvim_set_current_win", 1>>, <<"nvim_set_decoration_provider", 2>>, <<"nvim_set_hl", 3>>,
       <<"nvim_set_hl_ns", 1>>, <<"nvim_set_hl_ns_fast", 1>>, <<"nvim_set_keymap", 4>>,
       <<"nvim_set_option", 2>>, <<"nvim_set_option_value", 3>>, <<"nvim_set_var", 2>>,
       <<"nvim_set_vvar", 2>>, <<"nvim_strwidth", 1>>, <<"nvim_subscribe", 1>> >>

NvimTabpageFunctions ==
    << <<"nvim_tabpage_del_var", 2>>, <<"nvim_tabpage_get_number", 1>>,
       <<"nvim_tabpage_get_var", 2>>, <<"nvim_tabpage_get_win", 1>>,
       <<"nvim_tabpage_is_valid", 1>>, <<"nvim_tabpage_list_wins", 1>>,
       <<"nvim_tabpage_set_var", 3>>, <<"nvim_tabpage_set_win", 2>> >>

NvimUiFunctions ==
    << <<"nvim_ui_attach", 3>>, <<"nvim_ui_detach", 0>>, <<"nvim_ui_pum_set_bounds", 4>>,
       <<"nvim_ui_pum_set_height", 1>>, <<"nvim_ui_send", 1>>, <<"nvim_ui_set_focus", 1>>,
       <<"nvim_ui_set_option", 2>>, <<"nvim_ui_term_event", 2>>, <<"nvim_ui_try_resize", 2>>,
       <<"nvim_ui_try_resize_grid", 3>> >>

NvimWinFunctions ==
    << <<"nvim_unsubscribe", 1>>, <<"nvim_win_call", 2>>, <<"nvim_win_close", 2>>,
       <<"nvim_win_del_var", 2>>, <<"nvim_win_get_buf", 1>>, <<"nvim_win_get_config", 1>>,
       <<"nvim_win_get_cursor", 1>>, <<"nvim_win_get_height", 1>>, <<"nvim_win_get_number", 1>>,
       <<"nvim_win_get_option", 2>>, <<"nvim_win_get_position", 1>>, <<"nvim_win_get_tabpage", 1>>,
       <<"nvim_win_get_var", 2>>, <<"nvim_win_get_width", 1>>, <<"nvim_win_hide", 1>>,
       <<"nvim_win_is_valid", 1>>, <<"nvim_win_set_buf", 2>>, <<"nvim_win_set_config", 2>>,
       <<"nvim_win_set_cursor", 2>>, <<"nvim_win_set_height", 2>>, <<"nvim_win_set_hl_ns", 2>>,
       <<"nvim_win_set_option", 3>>, <<"nvim_win_set_var", 3>>, <<"nvim_win_set_width", 2>>,
       <<"nvim_win_text_height", 2>> >>

TabpageFunctions ==
    << <<"tabpage_del_var", 2>>, <<"tabpage_get_var", 2>>, <<"tabpage_get_window", 1>>,
       <<"tabpage_get_windows", 1>>, <<"tabpage_is_valid", 1>>, <<"tabpage_set_var", 3>> >>

UiFunctions ==
    << <<"ui_attach", 3>>, <<"ui_detach", 0>>, <<"ui_try_resize", 2>> >>

VimFunctions ==
    << <<"vim_call_function", 2>>, <<"vim_change_directory", 1>>, <<"vim_command", 1>>,
       <<"vim_command_output", 1>>, <<"vim_del_current_line", 0>>, <<"vim_del_var", 1>>,
       <<"vim_err_write", 1>>, <<"vim_eval", 1>>, <<"vim_feedkeys", 3>>, <<"vim_get_api_info", 0>>,
       <<"vim_get_buffers", 0>>, <<"vim_get_color_map", 0>>, <<"vim_get_current_buffer", 0>>,
       <<"vim_get_current_line", 0>>, <<"vim_get_current_tabpage", 0>>,
       <<"vim_get_current_window", 0>>, <<"vim_get_option", 1>>, <<"vim_get_tabpages", 0>>,
       <<"vim_get_var", 1>>, <<"vim_get_vvar", 1>>, <<"vim_get_windows", 0>>, <<"vim_input", 1>>,
       <<"vim_list_runtime_paths", 0>>, <<"vim_name_to_color", 1>>, <<"vim_out_write", 1>>,
       <<"vim_replace_termcodes", 4>>, <<"vim_report_error", 1>>, <<"vim_set_current_buffer", 1>>,
       <<"vim_set_current_line", 1>>, <<"vim_set_current_tabpage", 1>>,
       <<"vim_set_current_window", 1>>, <<"vim_set_option", 2>>, <<"vim_set_var", 2>>,
       <<"vim_strwidth", 1>>, <<"vim_subscribe", 1>>, <<"vim_unsubscribe", 1>> >>

WindowFunctions ==
    << <<"window_del_var", 2>>, <<"window_get_buffer", 1>>, <<"window_get_cursor", 1>>,
       <<"window_get_height", 1>>, <<"window_get_option", 2>>, <<"window_get_position", 1>>,
       <<"window_get_tabpage", 1>>, <<"window_get_var", 2>>, <<"window_get_width", 1>>,
       <<"window_is_valid", 1>>, <<"window_set_cursor", 2>>, <<"window_set_height", 2>>,
       <<"window_set_option", 3>>, <<"window_set_var", 3>>, <<"window_set_width", 2>> >>

API_FUNCTIONS ==
    BufferFunctions \o NvimBufFunctions \o NvimCallToFeedkeys \o NvimGetToLoad
        \o NvimNotifyToSubscribe \o NvimTabpageFunctions \o NvimUiFunctions \o NvimWinFunctions
        \o TabpageFunctions \o UiFunctions \o VimFunctions \o WindowFunctions
=============================================================================
